---- MODULE Spec2Model ----
(***************************************************************************)
(* Model of julianh2o/myalpr: the object-tracking ledger                   *)
(* (src/object_tracker.py), the ffmpeg stream capture                      *)
(* (src/ffmpeg_capture.py) and the crossing analyzer (src/analyze.py).     *)
(*                                                                         *)
(* SpecTracker drives ObjectTracker.update()/assignFrame() with bounded    *)
(* detection lists.  SpecCapture interleaves the background reader thread  *)
(* of FFmpegCapture with the owning thread's grab/retrieve/release calls   *)
(* and with the decoder process dying on its own.  SpecAnalyzer applies    *)
(* the crossing analyzer (src/analyze.py) to bounded position histories.   *)
(***************************************************************************)
EXTENDS Integers, Sequences, FiniteSets, TLC

(***************************************************************************)
(* Bounds of the model.                                                    *)
(***************************************************************************)
MaxFrame == 4          \* update() cycles explored
MaxTrack == 2          \* track ids 1..MaxTrack
MaxDet == 2            \* detections per cycle
MaxBox == 1            \* distinct bounding boxes 1..MaxBox
MaxPurge == 2          \* frames_before_purge ranges over 1..MaxPurge
MaxDecoded == 3        \* frames the reader decodes
MaxProc == 3           \* decoder processes started (the first and the restarts)
MaxRetries == 2        \* max_retries ranges over None and 0..MaxRetries
MaxRelease == 2        \* release() calls
MaxHist == 4           \* positions in a history handed to the analyzer
MaxRuns == 2           \* times each analyzer function is run on one history
FrameWidth == 4        \* frame_width handed to the analyzer
MaxLines == 2          \* stderr lines the decoders write

(***************************************************************************)
(* Program constants.                                                      *)
(***************************************************************************)
DefaultMinClassPercentage == 50    \* object_tracker.py:53 (50.0)
CarClass == 2                      \* object_tracker.py:58 (COCO car)
TruckClass == 7                    \* object_tracker.py:58 (COCO truck)
OtherClass == 0                    \* any class id that is not a target
QueueMax == 2                      \* ffmpeg_capture.py:20 (maxsize=2)
DelayUnit == 16                    \* delays are counted in 1/16 s
DefaultRetryDelay == 32            \* ffmpeg_capture.py:15 (retry_delay=2.0)
MaxRetryDelay == 480               \* ffmpeg_capture.py:177 (30.0)
NoRetryLimit == -1                 \* ffmpeg_capture.py:23 (max_retries=None)
VerticalLinePercentNum == 3        \* analyze.py:4 (vertical_line_percent=0.75)
VerticalLinePercentDen == 4

TrackIds == 1..MaxTrack
Boxes == 1..MaxBox
\* The class ids the detector reports for a track: track 1 flickers between a
\* target class and another class, every other track is always a car.
DetectedClasses(t) == IF t = 1 THEN {OtherClass, CarClass} ELSE {CarClass}
NoTrack == 0           \* "no callback raises in this cycle"
NoFrame == 0           \* hd_frame=None
HdFrame == 1           \* an HD frame object

SeqsUpTo(S, n) == UNION {[1..k -> S] : k \in 0..n}

\* One element of zip(boxes, track_ids, clss) (object_tracker.py:106).
Detection ==
    {[box |-> b, track_id |-> t, cls |-> c] :
        b \in Boxes, t \in TrackIds, c \in {OtherClass, CarClass}}

\* The detection lists of one cycle: at most MaxDet detections, one per track
\* id, in ascending track-id order.
DetectionLists ==
    {s \in SeqsUpTo(Detection, MaxDet) :
        /\ \A i, j \in DOMAIN s : i < j => s[i].track_id < s[j].track_id
        /\ \A i \in DOMAIN s : s[i].cls \in DetectedClasses(s[i].track_id)}

\* The target-class lists a tracker is configured with: two classes, and a
\* list that names the same class twice.
TargetLists == {<<CarClass, TruckClass>>, <<CarClass, CarClass>>}

VARIABLES
    \* ---- ObjectTracker (object_tracker.py:64-70) ----
    target_class_ids,      \* list of class ids
    frames_before_purge,
    on_object_lost,        \* TRUE iff a callback is registered
    min_class_percentage,
    tracked_objects,       \* track_id -> TrackedObject
    order,                 \* insertion order of the tracked_objects dict
    current_frame,
    hd_frames,             \* frame_id -> frame
    \* ---- observation of the tracker's behaviour ----
    purgeLog,              \* one record per object popped by the last update()
    lostCount,             \* track_id -> number of on_object_lost calls so far
    createdCount,          \* track_id -> number of TrackedObjects constructed so far
    pruned,                \* frame ids the last update() deleted from hd_frames
    lastOp,                \* the last tracker operation and how it ended
    \* ---- FFmpegCapture (ffmpeg_capture.py:16-24) ----
    max_retries,           \* NoRetryLimit or a number
    retry_delay,           \* the configured base delay, in DelayUnit-ths of a second
    running,
    process,               \* self.process: the decoder process last started
    alive,                 \* the decoder processes that have not ended
    nproc,                 \* decoder processes started so far
    frame_queue,           \* queue.Queue(maxsize=2), oldest frame first
    \* ---- the reader thread's locals and position ----
    rpc,
    retry_count,
    current_retry_delay,
    decoded,               \* frames decoded so far
    \* ---- the owning thread ----
    opc,                   \* "idle", or its position inside release()
    released,              \* release() calls that have returned
    \* ---- observation of the capture's behaviour ----
    lastCall,              \* the last grab()/retrieve() and what it returned
    exhausted,             \* the reader stopped because the retries ran out
    failsInRow,            \* failed reads since the last successful one
    restartsInRow,         \* restarts since the last successful read
    lateEvents,            \* what the reader did after a release() returned
    dropped,               \* frames the reader discarded from the queue
    takenAfterStop,        \* frames retrieved since the reader stopped
    retrieved,             \* the frames successful retrieve() calls returned
    sleptInRow,            \* the delays slept since the last successful read
    \* ---- the stderr logging threads (_log_stderr) ----
    stderr_threads,        \* the decoders whose logging thread is running
    stderr_lines,          \* stderr lines the decoders have written so far
    undrained,             \* lines written to a stderr pipe nobody reads
    \* ---- the analyzer's caller (main.py:65, 76) ----
    tracked_obj,           \* the TrackedObject handed to the analyzer
    frame_width,
    analysis,              \* what the last analyze_tracked_object returned
    prev_analysis,         \* what the run before that returned
    analyze_runs,          \* runs of analyze_tracked_object so far
    crossing_frame_idx,    \* what the last get_crossing_frame returned
    prev_crossing_frame_idx,
    crossing_runs,         \* runs of get_crossing_frame so far
    snapshot,              \* tracked_obj as it was handed over
    \* ---- the main ingestion loop (main.py:226-336) ----
    consecutive_errors,
    reconnect_count,
    loop_exit,             \* "none" while the loop runs, else how it was left
    failures_run,          \* failed iterations since the last frame or reconnect
    reconnects_run,        \* reconnects made since the last retrieved frame
    lastIter               \* what the last iteration of the loop did

trackerVars == <<target_class_ids, frames_before_purge, on_object_lost,
                 min_class_percentage, tracked_objects, order, current_frame,
                 hd_frames, purgeLog, lostCount, createdCount, pruned,
                 lastOp>>

captureVars == <<max_retries, running, process, alive, nproc, frame_queue,
                 rpc, retry_count, decoded, opc, released, lastCall, exhausted,
                 failsInRow, restartsInRow, lateEvents, dropped, takenAfterStop,
                 retrieved,
                 retry_delay, current_retry_delay, sleptInRow,
                 stderr_threads, stderr_lines, undrained>>

loggerVars == <<stderr_threads, stderr_lines, undrained>>

delayVars == <<retry_delay, current_retry_delay, sleptInRow>>

analyzerVars == <<tracked_obj, frame_width, analysis, prev_analysis,
                  analyze_runs, crossing_frame_idx, prev_crossing_frame_idx,
                  crossing_runs, snapshot>>

mainVars == <<consecutive_errors, reconnect_count, loop_exit, failures_run,
              reconnects_run, lastIter>>

vars == <<trackerVars, captureVars, analyzerVars, mainVars>>

(***************************************************************************)
(* Sequences helpers.                                                      *)
(***************************************************************************)
Range(s) == {s[i] : i \in DOMAIN s}

\* sum(1 for cid in class_ids if cid == c)
RECURSIVE CountOf(_, _)
CountOf(s, c) ==
    IF s = <<>> THEN 0
    ELSE (IF Head(s) = c THEN 1 ELSE 0) + CountOf(Tail(s), c)

(***************************************************************************)
(* TrackedObject                                                           *)
(***************************************************************************)
\* TrackedObject.__init__: the history starts with the box and the class id,
\* and with NO frame id.  `now` is the clock (the cycle number stands for
\* time.time()).
TrackedObjectInit(track_id, class_id, box, now) ==
    [track_id |-> track_id,
     first_seen |-> now,
     last_seen |-> now,
     frames_since_seen |-> 0,
     boxes |-> <<box>>,
     class_ids |-> <<class_id>>,
     frame_ids |-> <<>>]

\* Mutant of CreateObject: the caller forgets to append the frame id.
CreateObjectNoFrameId(track_id, class_id, box, frame) ==
    TrackedObjectInit(track_id, class_id, box, frame)

\* update(), the else branch: construct, then append the current frame id.
CreateObject(track_id, class_id, box, frame) ==
    [TrackedObjectInit(track_id, class_id, box, frame)
        EXCEPT !.frame_ids = Append(@, frame)]

\* Mutant of ObjUpdate: frames_since_seen is not reset.
ObjUpdateKeepsAge(obj, box, class_id, frame_id) ==
    [obj EXCEPT !.last_seen = frame_id,
                !.boxes = Append(@, box),
                !.class_ids = Append(@, class_id),
                !.frame_ids = Append(@, frame_id)]

\* TrackedObject.update
ObjUpdate(obj, box, class_id, frame_id) ==
    [obj EXCEPT !.last_seen = frame_id,
                !.frames_since_seen = 0,
                !.boxes = Append(@, box),
                !.class_ids = Append(@, class_id),
                !.frame_ids = Append(@, frame_id)]

\* TrackedObject.mark_not_seen
MarkNotSeen(obj) == [obj EXCEPT !.frames_since_seen = @ + 1]

\* TrackedObject.get_class_percentage(c) is CountOf(class_ids, c) / len * 100.
\* The percentages are kept exact as the numerator over the common
\* denominator Len(class_ids): PercentageTimesLen(obj, c) / Len(obj.class_ids).
PercentageTimesLen(obj, c) ==
    IF obj.class_ids = <<>> THEN 0 ELSE CountOf(obj.class_ids, c) * 100

\* sum(obj.get_class_percentage(class_id) for class_id in target_class_ids),
\* times Len(obj.class_ids): one term per ELEMENT of the list.
RECURSIVE TotalTargetTimesLen(_, _)
TotalTargetTimesLen(obj, targets) ==
    IF targets = <<>> THEN 0
    ELSE PercentageTimesLen(obj, Head(targets))
         + TotalTargetTimesLen(obj, Tail(targets))

\* total_target_percentage >= self.min_class_percentage
PassesClassFilter(obj, targets, minpct) ==
    TotalTargetTimesLen(obj, targets) >= minpct * Len(obj.class_ids)

(***************************************************************************)
(* ObjectTracker.update                                                    *)
(***************************************************************************)
Put(f, k, v) == [x \in (DOMAIN f) \cup {k} |-> IF x = k THEN v ELSE f[x]]

Drop(f, k) == [x \in (DOMAIN f) \ {k} |-> f[x]]

\* The detection loop: a live track id is updated, any other creates an
\* object (and is appended to the dict's insertion order).
RECURSIVE ProcessDetections(_, _, _, _)
ProcessDetections(objs, ord, dets, frame) ==
    IF dets = <<>> THEN [objs |-> objs, ord |-> ord]
    ELSE LET d == Head(dets)
         IN  IF d.track_id \in DOMAIN objs
             THEN ProcessDetections(
                    [objs EXCEPT ![d.track_id] = ObjUpdate(@, d.box, d.cls, frame)],
                    ord, Tail(dets), frame)
             ELSE ProcessDetections(
                    Put(objs, d.track_id, CreateObject(d.track_id, d.cls, d.box, frame)),
                    Append(ord, d.track_id), Tail(dets), frame)

\* Mutant of AgeUnseen: the objects seen in this cycle age too.
AgeUnseenAll(objs, seen) ==
    [t \in DOMAIN objs |-> MarkNotSeen(objs[t])]

\* The marking loop: every object not seen in this cycle ages by one.
AgeUnseen(objs, seen) ==
    [t \in DOMAIN objs |-> IF t \in seen THEN objs[t] ELSE MarkNotSeen(objs[t])]

\* Mutant of DueForPurge: purge one cycle early.
DueForPurgeEarly(obj, threshold) == obj.frames_since_seen + 1 >= threshold

\* obj.frames_since_seen >= self.frames_before_purge
DueForPurge(obj, threshold) == obj.frames_since_seen >= threshold

\* to_purge, in dict order: the unseen objects that are due.
ToPurge(objs, ord, seen, threshold) ==
    SelectSeq(ord, LAMBDA t : t \notin seen /\ DueForPurge(objs[t], threshold))

RemoveFromSeq(s, x) == SelectSeq(s, LAMBDA y : y # x)

\* Mutant of PopObject: the object stays in the ledger.
PopObjectKeep(objs, track_id) == objs

\* self.tracked_objects.pop(track_id)
PopObject(objs, track_id) == Drop(objs, track_id)

\* The purge loop.  Each track id of to_purge is popped; with a callback
\* registered the class filter decides whether it is called.  `raiser` is the
\* track id on which the callback raises (NoTrack: it never does): the
\* exception leaves update() at once, with the rest of to_purge not popped.
RECURSIVE PurgeLoop(_, _, _, _, _, _, _, _, _)
PurgeLoop(objs, ord, todo, log, cb, targets, minpct, frame, raiser) ==
    IF todo = <<>>
    THEN [objs |-> objs, ord |-> ord, log |-> log, raised |-> FALSE]
    ELSE LET t == Head(todo)
             obj == objs[t]
             called == cb /\ PassesClassFilter(obj, targets, minpct)
             objs2 == PopObject(objs, t)
             ord2 == IF t \in DOMAIN objs2 THEN ord ELSE RemoveFromSeq(ord, t)
             log2 == log \cup {[obj |-> obj, at |-> frame, called |-> called,
                                liveAtCall |-> t \in DOMAIN objs2]}
         IN  IF called /\ t = raiser
             THEN [objs |-> objs2, ord |-> ord2, log |-> log2, raised |-> TRUE]
             ELSE PurgeLoop(objs2, ord2, Tail(todo), log2, cb, targets, minpct,
                            frame, raiser)

\* The frame ids referenced by the live objects.
ReferencedFrames(objs) == UNION {Range(objs[t].frame_ids) : t \in DOMAIN objs}

\* Mutant of CleanupHdFrames: nothing is pruned.
CleanupHdFramesNone(hd, objs) == hd

\* ObjectTracker._cleanup_hd_frames
CleanupHdFrames(hd, objs) ==
    [fid \in {f \in DOMAIN hd : f \in ReferencedFrames(objs)} |-> hd[fid]]

\* What update() does to the ledger apart from the HD cache: the frame id is
\* advanced, the detections are applied, the unseen objects aged, the due
\* ones purged.  No step of it reads hd_frame.
UpdateTracking(dets, raiser) ==
    LET frame == current_frame + 1
        seen == {dets[i].track_id : i \in DOMAIN dets}
        p == ProcessDetections(tracked_objects, order, dets, frame)
        aged == AgeUnseen(p.objs, seen)
        todo == ToPurge(aged, p.ord, seen, frames_before_purge)
        r == PurgeLoop(aged, p.ord, todo, {}, on_object_lost,
                       target_class_ids, min_class_percentage, frame, raiser)
    IN  [frame |-> frame, objs |-> r.objs, ord |-> r.ord, log |-> r.log,
         raised |-> r.raised]

\* Mutant of UpdateResult: without an HD frame the detections are not
\* ingested.
UpdateResultNeedsHd(dets, hd_frame, raiser) ==
    LET t == UpdateTracking(IF hd_frame = NoFrame THEN <<>> ELSE dets, raiser)
        stored == IF hd_frame # NoFrame THEN Put(hd_frames, t.frame, hd_frame)
                  ELSE hd_frames
    IN  [frame |-> t.frame, objs |-> t.objs, ord |-> t.ord, log |-> t.log,
         raised |-> t.raised, stored |-> stored,
         hd |-> IF t.raised THEN stored ELSE CleanupHdFrames(stored, t.objs),
         returned |-> IF t.raised THEN <<>>
                      ELSE [i \in DOMAIN t.ord |-> t.objs[t.ord[i]]]]

\* Mutant of UpdateResult: the cache is pruned before the purge loop calls
\* the callbacks.
UpdateResultPruneFirst(dets, hd_frame, raiser) ==
    LET t == UpdateTracking(dets, raiser)
        stored == CleanupHdFrames(
                      IF hd_frame # NoFrame THEN Put(hd_frames, t.frame, hd_frame)
                      ELSE hd_frames, t.objs)
    IN  [frame |-> t.frame, objs |-> t.objs, ord |-> t.ord, log |-> t.log,
         raised |-> t.raised, stored |-> stored,
         hd |-> stored,
         returned |-> IF t.raised THEN <<>>
                      ELSE [i \in DOMAIN t.ord |-> t.objs[t.ord[i]]]]

\* The outcome of update(result, hd_frame): the HD frame, when there is one,
\* is stored under the new frame id before the detections are looked at, and
\* the cache is pruned after the purge loop unless a callback raised.
\* `stored` is the cache as the purge loop and its callbacks find it (no
\* line between 97 and 141 touches hd_frames), `hd` the cache when update()
\* is left, `returned` is list(self.tracked_objects.values()).
UpdateResult(dets, hd_frame, raiser) ==
    LET t == UpdateTracking(dets, raiser)
        stored == IF hd_frame # NoFrame THEN Put(hd_frames, t.frame, hd_frame)
                  ELSE hd_frames
    IN  [frame |-> t.frame, objs |-> t.objs, ord |-> t.ord, log |-> t.log,
         raised |-> t.raised, stored |-> stored,
         hd |-> IF t.raised THEN stored ELSE CleanupHdFrames(stored, t.objs),
         returned |-> IF t.raised THEN <<>>
                      ELSE [i \in DOMAIN t.ord |-> t.objs[t.ord[i]]]]

\* One whole update(result, hd_frame) call.
Update(dets, hd_frame, raiser) ==
    /\ current_frame < MaxFrame
    /\ LET r == UpdateResult(dets, hd_frame, raiser)
           seen == {dets[i].track_id : i \in DOMAIN dets}
       IN  /\ current_frame' = r.frame
           /\ tracked_objects' = r.objs
           /\ order' = r.ord
           /\ purgeLog' = r.log
           /\ lostCount' = [t \in TrackIds |->
                 lostCount[t] + Cardinality({e \in r.log :
                                   e.called /\ e.obj.track_id = t})]
           /\ createdCount' = [t \in TrackIds |->
                 createdCount[t]
                 + (IF t \in seen /\ t \notin DOMAIN tracked_objects THEN 1 ELSE 0)]
           /\ hd_frames' = r.hd
           /\ pruned' = (DOMAIN r.stored) \ (DOMAIN r.hd)
           /\ lastOp' = IF r.raised THEN "update_raised" ELSE "update"
    /\ UNCHANGED <<target_class_ids, frames_before_purge, on_object_lost,
                   min_class_percentage>>
    /\ UNCHANGED captureVars
    /\ UNCHANGED analyzerVars
    /\ UNCHANGED mainVars

\* ObjectTracker.get_frames_for_object, on the cache hd:
\* [self.hd_frames[fid] for fid in obj.frame_ids if fid in self.hd_frames]
get_frames_for_object(obj, hd) ==
    LET ids == SelectSeq(obj.frame_ids, LAMBDA fid : fid \in DOMAIN hd)
    IN  [i \in DOMAIN ids |-> hd[ids[i]]]

\* Mutant of AssignFrame: the frame is stored under the id of the next cycle.
AssignFrameNextId(frame) ==
    /\ hd_frames' = Put(hd_frames, current_frame + 1, frame)
    /\ lastOp' = "assignFrame"
    /\ UNCHANGED <<target_class_ids, frames_before_purge, on_object_lost,
                   min_class_percentage, tracked_objects, order, current_frame,
                   purgeLog, lostCount, createdCount, pruned>>
    /\ UNCHANGED captureVars
    /\ UNCHANGED analyzerVars
    /\ UNCHANGED mainVars

\* ObjectTracker.assignFrame
AssignFrame(frame) ==
    /\ hd_frames' = Put(hd_frames, current_frame, frame)
    /\ lastOp' = "assignFrame"
    /\ UNCHANGED <<target_class_ids, frames_before_purge, on_object_lost,
                   min_class_percentage, tracked_objects, order, current_frame,
                   purgeLog, lostCount, createdCount, pruned>>
    /\ UNCHANGED captureVars
    /\ UNCHANGED analyzerVars
    /\ UNCHANGED mainVars

\* The track ids on which the callback can be called, and so can raise, in a
\* cycle with detections dets; NoTrack when it does not raise.
Raisers(dets) ==
    {NoTrack} \cup
    {t \in DOMAIN tracked_objects :
        /\ on_object_lost
        /\ t \notin {dets[i].track_id : i \in DOMAIN dets}
        /\ DueForPurge(MarkNotSeen(tracked_objects[t]), frames_before_purge)}

\* The detector result handed to update(): result.boxes with its xywh, id
\* and cls lists and its is_track flag.  Without tracking there are no ids.
ResultOf(dets) ==
    [boxes |-> [i \in DOMAIN dets |-> dets[i].box],
     id |-> [i \in DOMAIN dets |-> dets[i].track_id],
     cls |-> [i \in DOMAIN dets |-> dets[i].cls],
     is_track |-> TRUE]

TrackedResults == {ResultOf(dets) : dets \in DetectionLists}

UntrackedResults ==
    {[r EXCEPT !.id = <<>>, !.is_track = FALSE] : r \in TrackedResults}

ButLast(s) == SubSeq(s, 1, Len(s) - 1)

\* Results of MaxDet detections in which one of the three lists is one short.
MismatchedResults ==
    UNION {{[r EXCEPT !.boxes = ButLast(@)],
            [r EXCEPT !.id = ButLast(@)],
            [r EXCEPT !.cls = ButLast(@)]} :
              r \in {x \in TrackedResults : Len(x.boxes) = MaxDet}}

DetectorResults == TrackedResults \cup UntrackedResults \cup MismatchedResults

\* zip(boxes, track_ids, clss): stops at the end of the shortest list.
RECURSIVE Zip3(_, _, _)
Zip3(boxes, track_ids, clss) ==
    IF boxes = <<>> \/ track_ids = <<>> \/ clss = <<>> THEN <<>>
    ELSE <<[box |-> Head(boxes), track_id |-> Head(track_ids), cls |-> Head(clss)]>>
         \o Zip3(Tail(boxes), Tail(track_ids), Tail(clss))

\* Mutant of DetectionsOf: is_track is not looked at, and a box without a
\* track id is taken for track 1.
DetectionsOfUntrackedToo(result) ==
    IF result.boxes # <<>>
    THEN Zip3(result.boxes,
              IF result.is_track THEN result.id
              ELSE [i \in DOMAIN result.boxes |-> 1],
              result.cls)
    ELSE <<>>

\* if result.boxes and result.boxes.is_track: the detections the loop sees.
DetectionsOf(result) ==
    IF result.boxes # <<>> /\ result.is_track
    THEN Zip3(result.boxes, result.id, result.cls)
    ELSE <<>>

\* ObjectTracker.__init__
InitTracker ==
    /\ target_class_ids \in TargetLists
    /\ frames_before_purge \in 1..MaxPurge
    /\ on_object_lost = TRUE      \* main.py:170-174 registers on_car_lost
    /\ min_class_percentage = DefaultMinClassPercentage
    /\ tracked_objects = <<>>
    /\ order = <<>>
    /\ current_frame = 0
    /\ hd_frames = <<>>
    /\ purgeLog = {}
    /\ lostCount = [t \in TrackIds |-> 0]
    /\ createdCount = [t \in TrackIds |-> 0]
    /\ pruned = {}
    /\ lastOp = "init"

(***************************************************************************)
(* FFmpegCapture                                                           *)
(***************************************************************************)
\* A decoded frame is its number in decode order; decoder processes are
\* numbered in the order subprocess.Popen started them.
Procs == 1..MaxProc

RetryLimits == {NoRetryLimit} \cup (0..MaxRetries)

\* The base delays a capture is configured with: the default 2 s, 24 s (the
\* ceiling is reached at the second failure) and 40 s (above the ceiling).
RetryDelays == {DefaultRetryDelay, 24 * DelayUnit, 40 * DelayUnit}

NoCall == [op |-> "none", ok |-> FALSE, frame |-> NoFrame, newest |-> NoFrame,
           remaining |-> 0, afterStop |-> FALSE]

\* FFmpegCapture.isOpened: process is not None and process.poll() is None
isOpened == process \in alive

\* min(current_retry_delay * 1.5, 30.0).  The delays of the model are even
\* multiples of the unit for as long as they are below the ceiling, so that
\* the product is exact.
NextRetryDelay(delay) ==
    IF (delay * 3) \div 2 < MaxRetryDelay THEN (delay * 3) \div 2
    ELSE MaxRetryDelay

\* Mutant of DelayAfterSuccess: the backoff delay is not reset.
DelayAfterSuccessKept(base, delay) == delay

\* current_retry_delay = self.retry_delay
DelayAfterSuccess(base, delay) == base

\* Mutant of RetriesExhausted: the test for "no limit" is left out.
RetriesExhaustedNoneToo(count, limit) == count >= limit

\* self.max_retries is not None and retry_count >= self.max_retries
RetriesExhausted(count, limit) == limit # NoRetryLimit /\ count >= limit

\* Mutant of AfterExhausted: the reader loops again instead of leaving.
AfterExhaustedContinue == "loop"

\* The `break` taken when the retries are exhausted: _read_frames returns.
AfterExhausted == "done"

\* Mutant of QueueEmpty: the queue is always reported empty.
QueueEmptyAlways(q) == TRUE

\* self.frame_queue.empty()
QueueEmpty(q) == Len(q) = 0

\* self.frame_queue.full()
QueueFull(q) == Len(q) >= QueueMax

\* Mutant of QueuePut: the frame is put at the head of the queue.
QueuePutFirst(q, frame) == <<frame>> \o q

\* queue.Queue is first in, first out: put appends at the tail, get and
\* get_nowait take the head.
QueuePut(q, frame) == Append(q, frame)

\* Mutant of GetNowait: the newest queued frame is discarded.
GetNowaitNewest(q) == IF q = <<>> THEN q ELSE SubSeq(q, 1, Len(q) - 1)

\* self.frame_queue.get_nowait(), queue.Empty swallowed: removes the oldest
\* queued frame, if there is one.
GetNowait(q) == IF q = <<>> THEN q ELSE Tail(q)

\* ---- the reader thread: FFmpegCapture._read_frames ----

\* while self.running:
ReaderLoop ==
    /\ rpc = "loop"
    /\ rpc' = IF running THEN "read" ELSE "done"
    /\ UNCHANGED trackerVars
    /\ UNCHANGED analyzerVars
    /\ UNCHANGED mainVars
    /\ UNCHANGED loggerVars
    /\ UNCHANGED delayVars
    /\ UNCHANGED <<max_retries, running, process, alive, nproc, frame_queue,
                   retry_count, decoded, opc, released, lastCall, exhausted,
                   failsInRow, restartsInRow, lateEvents, dropped,
                   takenAfterStop, retrieved>>

\* read(frame_size) returns a whole frame: the decoder is alive.  The retry
\* counter is reset (lines 186-193).
ReaderReadFrame ==
    /\ rpc = "read"
    /\ process \in alive
    /\ decoded < MaxDecoded
    /\ decoded' = decoded + 1
    /\ retry_count' = 0
    /\ current_retry_delay' = DelayAfterSuccess(retry_delay, current_retry_delay)
    /\ sleptInRow' = <<>>
    /\ UNCHANGED retry_delay
    /\ failsInRow' = 0
    /\ restartsInRow' = 0
    /\ rpc' = "full"
    /\ UNCHANGED trackerVars
    /\ UNCHANGED analyzerVars
    /\ UNCHANGED mainVars
    /\ UNCHANGED loggerVars
    /\ UNCHANGED <<max_retries, running, process, alive, nproc, frame_queue,
                   opc, released, lastCall, exhausted, lateEvents, dropped,
                   takenAfterStop, retrieved>>

\* What both failure paths do first: stop when the retries are exhausted,
\* otherwise go on to clean up the old process.
ReaderFailed ==
    /\ failsInRow' = failsInRow + 1
    /\ IF RetriesExhausted(retry_count, max_retries)
       THEN /\ rpc' = AfterExhausted
            /\ exhausted' = TRUE
       ELSE /\ rpc' = "cleanup"
            /\ UNCHANGED exhausted
    /\ UNCHANGED trackerVars
    /\ UNCHANGED analyzerVars
    /\ UNCHANGED mainVars
    /\ UNCHANGED loggerVars
    /\ UNCHANGED delayVars
    /\ UNCHANGED <<max_retries, running, process, alive, nproc, frame_queue,
                   retry_count, decoded, opc, released, lastCall,
                   restartsInRow, lateEvents, dropped, takenAfterStop,
                   retrieved>>

\* read(frame_size) returns fewer bytes: end of file on the pipe of a decoder
\* that has exited or was terminated (lines 153-163).
ReaderReadShort ==
    /\ rpc = "read"
    /\ process \notin alive
    /\ ReaderFailed

\* read(frame_size) raises (lines 208-218): an I/O error, with the decoder
\* alive or not.
ReaderReadException ==
    /\ rpc = "read"
    /\ ReaderFailed

\* self.process.terminate(); wait(timeout=2.0), kill() when that raises;
\* retry_count += 1 (lines 165-174, 220-227).
ReaderCleanup ==
    /\ rpc = "cleanup"
    /\ alive' = alive \ {process}
    /\ retry_count' = retry_count + 1
    /\ rpc' = "sleep"
    /\ UNCHANGED trackerVars
    /\ UNCHANGED analyzerVars
    /\ UNCHANGED mainVars
    /\ UNCHANGED loggerVars
    /\ UNCHANGED delayVars
    /\ UNCHANGED <<max_retries, running, process, nproc, frame_queue, decoded,
                   opc, released, lastCall, exhausted, failsInRow,
                   restartsInRow, lateEvents, dropped, takenAfterStop,
                   retrieved>>

\* time.sleep(current_retry_delay), then the delay for the next failure
\* (lines 175-177, 228-230).
ReaderSleep ==
    /\ rpc = "sleep"
    /\ sleptInRow' = Append(sleptInRow, current_retry_delay)
    /\ current_retry_delay' = NextRetryDelay(current_retry_delay)
    /\ UNCHANGED retry_delay
    /\ rpc' = "recheck"
    /\ UNCHANGED trackerVars
    /\ UNCHANGED analyzerVars
    /\ UNCHANGED mainVars
    /\ UNCHANGED loggerVars
    /\ UNCHANGED <<max_retries, running, process, alive, nproc, frame_queue,
                   retry_count, decoded, opc, released, lastCall, exhausted,
                   failsInRow, restartsInRow, lateEvents, dropped,
                   takenAfterStop, retrieved>>

\* if self.running: restart, else: break (lines 180-184, 232-235).
ReaderRecheck ==
    /\ rpc = "recheck"
    /\ rpc' = IF running THEN "restart" ELSE "done"
    /\ UNCHANGED trackerVars
    /\ UNCHANGED analyzerVars
    /\ UNCHANGED mainVars
    /\ UNCHANGED loggerVars
    /\ UNCHANGED delayVars
    /\ UNCHANGED <<max_retries, running, process, alive, nproc, frame_queue,
                   retry_count, decoded, opc, released, lastCall, exhausted,
                   failsInRow, restartsInRow, lateEvents, dropped,
                   takenAfterStop, retrieved>>

\* _restart_stream: self.process = subprocess.Popen(...), a logging thread
\* for its stderr is started, then back to the top of the loop.
ReaderRestart ==
    /\ rpc = "restart"
    /\ nproc < MaxProc
    /\ nproc' = nproc + 1
    /\ process' = nproc + 1
    /\ alive' = alive \cup {nproc + 1}
    /\ restartsInRow' = restartsInRow + 1
    /\ lateEvents' = IF released > 0 THEN lateEvents \cup {"start"} ELSE lateEvents
    /\ rpc' = "loop"
    /\ UNCHANGED trackerVars
    /\ UNCHANGED analyzerVars
    /\ UNCHANGED mainVars
    /\ stderr_threads' = stderr_threads \cup {nproc + 1}
    /\ UNCHANGED <<stderr_lines, undrained>>
    /\ UNCHANGED delayVars
    /\ UNCHANGED <<max_retries, running, frame_queue, retry_count, decoded,
                   opc, released, lastCall, exhausted, failsInRow, dropped,
                   takenAfterStop, retrieved>>

\* if self.frame_queue.full():
ReaderCheckFull ==
    /\ rpc = "full"
    /\ rpc' = IF QueueFull(frame_queue) THEN "getnw" ELSE "put"
    /\ UNCHANGED trackerVars
    /\ UNCHANGED analyzerVars
    /\ UNCHANGED mainVars
    /\ UNCHANGED loggerVars
    /\ UNCHANGED delayVars
    /\ UNCHANGED <<max_retries, running, process, alive, nproc, frame_queue,
                   retry_count, decoded, opc, released, lastCall, exhausted,
                   failsInRow, restartsInRow, lateEvents, dropped,
                   takenAfterStop, retrieved>>

\* try: self.frame_queue.get_nowait() except queue.Empty: pass
ReaderGetNowait ==
    /\ rpc = "getnw"
    /\ frame_queue' = GetNowait(frame_queue)
    /\ dropped' = dropped + (Len(frame_queue) - Len(frame_queue'))
    /\ rpc' = "put"
    /\ UNCHANGED trackerVars
    /\ UNCHANGED analyzerVars
    /\ UNCHANGED mainVars
    /\ UNCHANGED loggerVars
    /\ UNCHANGED delayVars
    /\ UNCHANGED <<max_retries, running, process, alive, nproc, retry_count,
                   decoded, opc, released, lastCall, exhausted, failsInRow,
                   restartsInRow, lateEvents, takenAfterStop, retrieved>>

\* self.frame_queue.put(frame): blocks while the queue holds maxsize frames.
ReaderPut ==
    /\ rpc = "put"
    /\ Len(frame_queue) < QueueMax
    /\ frame_queue' = QueuePut(frame_queue, decoded)
    /\ lateEvents' = IF released > 0 THEN lateEvents \cup {"put"} ELSE lateEvents
    /\ rpc' = "loop"
    /\ UNCHANGED trackerVars
    /\ UNCHANGED analyzerVars
    /\ UNCHANGED mainVars
    /\ UNCHANGED loggerVars
    /\ UNCHANGED delayVars
    /\ UNCHANGED <<max_retries, running, process, alive, nproc, retry_count,
                   decoded, opc, released, lastCall, exhausted, failsInRow,
                   restartsInRow, dropped, takenAfterStop, retrieved>>

\* ---- the decoder ----

\* An ffmpeg process ends on its own (stream lost, network error).
DecoderExits ==
    /\ \E p \in alive : alive' = alive \ {p}
    /\ UNCHANGED trackerVars
    /\ UNCHANGED analyzerVars
    /\ UNCHANGED mainVars
    /\ UNCHANGED loggerVars
    /\ UNCHANGED delayVars
    /\ UNCHANGED <<max_retries, running, process, nproc, frame_queue, rpc,
                   retry_count, decoded, opc, released, lastCall, exhausted,
                   failsInRow, restartsInRow, lateEvents, dropped,
                   takenAfterStop, retrieved>>

\* ---- the owning thread ----

\* FFmpegCapture.grab
Grab ==
    /\ opc = "idle"
    /\ lastCall' = [op |-> "grab", ok |-> ~QueueEmpty(frame_queue), frame |-> NoFrame,
                    newest |-> NoFrame, remaining |-> Len(frame_queue),
                    afterStop |-> exhausted]
    /\ UNCHANGED trackerVars
    /\ UNCHANGED analyzerVars
    /\ UNCHANGED mainVars
    /\ UNCHANGED loggerVars
    /\ UNCHANGED delayVars
    /\ UNCHANGED <<max_retries, running, process, alive, nproc, frame_queue,
                   rpc, retry_count, decoded, released, opc, exhausted,
                   failsInRow, restartsInRow, lateEvents, dropped,
                   takenAfterStop, retrieved>>

\* FFmpegCapture.retrieve, a frame is (or becomes) available:
\* frame_queue.get(timeout=1.0) returns the head of the queue.  `op` names
\* the public method the caller entered through.
RetrieveFrameAs(op) ==
    /\ opc = "idle"
    /\ frame_queue # <<>>
    /\ lastCall' = [op |-> op, ok |-> TRUE, frame |-> Head(frame_queue),
                    newest |-> frame_queue[Len(frame_queue)],
                    remaining |-> Len(frame_queue), afterStop |-> exhausted]
    /\ frame_queue' = Tail(frame_queue)
    /\ takenAfterStop' = IF exhausted THEN takenAfterStop + 1 ELSE takenAfterStop
    /\ retrieved' = Append(retrieved, Head(frame_queue))
    /\ UNCHANGED trackerVars
    /\ UNCHANGED analyzerVars
    /\ UNCHANGED mainVars
    /\ UNCHANGED loggerVars
    /\ UNCHANGED delayVars
    /\ UNCHANGED <<max_retries, running, process, alive, nproc, rpc,
                   retry_count, decoded, released, opc, exhausted, failsInRow,
                   restartsInRow, lateEvents, dropped>>

\* FFmpegCapture.retrieve, the queue stays empty for the whole timeout:
\* queue.Empty is caught and (False, None) returned.
RetrieveTimeoutAs(op) ==
    /\ opc = "idle"
    /\ frame_queue = <<>>
    /\ lastCall' = [op |-> op, ok |-> FALSE, frame |-> NoFrame,
                    newest |-> NoFrame, remaining |-> 0, afterStop |-> exhausted]
    /\ UNCHANGED trackerVars
    /\ UNCHANGED analyzerVars
    /\ UNCHANGED mainVars
    /\ UNCHANGED loggerVars
    /\ UNCHANGED delayVars
    /\ UNCHANGED <<max_retries, running, process, alive, nproc, frame_queue,
                   rpc, retry_count, decoded, released, opc, exhausted,
                   failsInRow, restartsInRow, lateEvents, dropped,
                   takenAfterStop, retrieved>>

RetrieveFrame == RetrieveFrameAs("retrieve")

RetrieveTimeout == RetrieveTimeoutAs("retrieve")

\* FFmpegCapture.read: return self.retrieve()
ReadFrame == RetrieveFrameAs("read")

ReadTimeout == RetrieveTimeoutAs("read")

\* The reader's positions in which it is inside a blocking call (the pipe
\* read, wait() on the old process, time.sleep, Popen): thread.join's two
\* seconds can run out only while the reader is in one of them.
BlockingPcs == {"read", "cleanup", "sleep", "restart"}

\* release(): self.running = False
ReleaseStart ==
    /\ opc = "idle"
    /\ released < MaxRelease
    /\ running' = FALSE
    /\ opc' = "join"
    /\ UNCHANGED trackerVars
    /\ UNCHANGED analyzerVars
    /\ UNCHANGED mainVars
    /\ UNCHANGED loggerVars
    /\ UNCHANGED delayVars
    /\ UNCHANGED <<max_retries, process, alive, nproc, frame_queue, rpc,
                   retry_count, decoded, released, lastCall, exhausted,
                   failsInRow, restartsInRow, lateEvents, dropped,
                   takenAfterStop, retrieved>>

\* release(): self.thread.join(timeout=2.0) returns: the reader has ended,
\* or the timeout ran out (join reports neither, and release does not ask).
ReleaseJoin ==
    /\ opc = "join"
    /\ rpc = "done" \/ rpc \in BlockingPcs
    /\ opc' = "terminate"
    /\ UNCHANGED trackerVars
    /\ UNCHANGED analyzerVars
    /\ UNCHANGED mainVars
    /\ UNCHANGED loggerVars
    /\ UNCHANGED delayVars
    /\ UNCHANGED <<max_retries, running, process, alive, nproc, frame_queue,
                   rpc, retry_count, decoded, released, lastCall, exhausted,
                   failsInRow, restartsInRow, lateEvents, dropped,
                   takenAfterStop, retrieved>>

\* release(): self.process.terminate()
ReleaseTerminate ==
    /\ opc = "terminate"
    /\ alive' = alive \ {process}
    /\ opc' = "wait"
    /\ UNCHANGED trackerVars
    /\ UNCHANGED analyzerVars
    /\ UNCHANGED mainVars
    /\ UNCHANGED loggerVars
    /\ UNCHANGED delayVars
    /\ UNCHANGED <<max_retries, running, process, nproc, frame_queue, rpc,
                   retry_count, decoded, released, lastCall, exhausted,
                   failsInRow, restartsInRow, lateEvents, dropped,
                   takenAfterStop, retrieved>>

\* release(): self.process.wait(timeout=2.0).  self.process is read again:
\* it is the terminated process, or one the reader has started since, which
\* is alive, so that wait() raises TimeoutExpired and it is killed.
ReleaseWait ==
    /\ opc = "wait"
    /\ alive' = alive \ {process}
    /\ released' = released + 1
    /\ opc' = "idle"
    /\ UNCHANGED trackerVars
    /\ UNCHANGED analyzerVars
    /\ UNCHANGED mainVars
    /\ UNCHANGED loggerVars
    /\ UNCHANGED delayVars
    /\ UNCHANGED <<max_retries, running, process, nproc, frame_queue, rpc,
                   retry_count, decoded, lastCall, exhausted, failsInRow,
                   restartsInRow, lateEvents, dropped, takenAfterStop,
                   retrieved>>

\* FFmpegCapture.__init__ and _start: the first decoder is started and the
\* reader thread is running.
InitCapture ==
    /\ max_retries \in RetryLimits
    /\ retry_delay \in RetryDelays
    /\ current_retry_delay = retry_delay
    /\ sleptInRow = <<>>
    /\ stderr_threads = {1}
    /\ stderr_lines = 0
    /\ undrained = 0
    /\ running = TRUE
    /\ process = 1
    /\ alive = {1}
    /\ nproc = 1
    /\ frame_queue = <<>>
    /\ rpc = "loop"
    /\ retry_count = 0
    /\ decoded = 0
    /\ opc = "idle"
    /\ released = 0
    /\ lastCall = NoCall
    /\ exhausted = FALSE
    /\ failsInRow = 0
    /\ restartsInRow = 0
    /\ lateEvents = {}
    /\ dropped = 0
    /\ takenAfterStop = 0
    /\ retrieved = <<>>

\* ---- _start and the stderr logging threads ----

\* _start, lines 86-88: self.running = True and the reader thread is
\* started; the constructor returns.  The decoder and its logging thread
\* were started before (lines 48-57), then came time.sleep(1) and ffprobe.
StartReaderThread ==
    /\ opc = "init"
    /\ rpc = "unstarted"
    /\ running' = TRUE
    /\ rpc' = "loop"
    /\ opc' = "idle"
    /\ UNCHANGED trackerVars
    /\ UNCHANGED analyzerVars
    /\ UNCHANGED mainVars
    /\ UNCHANGED loggerVars
    /\ UNCHANGED delayVars
    /\ UNCHANGED <<max_retries, process, alive, nproc, frame_queue,
                   retry_count, decoded, released, lastCall, exhausted,
                   failsInRow, restartsInRow, lateEvents, dropped,
                   takenAfterStop, retrieved>>

\* A decoder writes a line to its stderr.  Its logging thread, if it is
\* still there, gets the line from readline and leaves its loop when
\* self.running is false (_log_stderr, lines 96-98); otherwise it prints the
\* line and reads on.  With no logging thread the line stays in the pipe.
StderrLine ==
    /\ stderr_lines < MaxLines
    /\ stderr_lines' = stderr_lines + 1
    /\ \E p \in alive :
          IF p \in stderr_threads
          THEN /\ stderr_threads' = IF running THEN stderr_threads
                                    ELSE stderr_threads \ {p}
               /\ UNCHANGED undrained
          ELSE /\ undrained' = undrained + 1
               /\ UNCHANGED stderr_threads
    /\ UNCHANGED trackerVars
    /\ UNCHANGED analyzerVars
    /\ UNCHANGED mainVars
    /\ UNCHANGED delayVars
    /\ UNCHANGED <<max_retries, running, process, alive, nproc, frame_queue,
                   rpc, retry_count, decoded, opc, released, lastCall,
                   exhausted, failsInRow, restartsInRow, lateEvents, dropped,
                   takenAfterStop, retrieved>>

\* The decoder has ended: readline returns b'' and the logging thread ends.
StderrEof ==
    /\ \E p \in stderr_threads \ alive :
          stderr_threads' = stderr_threads \ {p}
    /\ UNCHANGED <<stderr_lines, undrained>>
    /\ UNCHANGED trackerVars
    /\ UNCHANGED analyzerVars
    /\ UNCHANGED mainVars
    /\ UNCHANGED delayVars
    /\ UNCHANGED <<max_retries, running, process, alive, nproc, frame_queue,
                   rpc, retry_count, decoded, opc, released, lastCall,
                   exhausted, failsInRow, restartsInRow, lateEvents, dropped,
                   takenAfterStop, retrieved>>

\* The capture inside its constructor: _start has started the first decoder
\* and its logging thread (lines 48-57); self.running is still False (line
\* 21) and the reader thread is not started yet.
InitStarting ==
    /\ max_retries \in RetryLimits
    /\ retry_delay = DefaultRetryDelay
    /\ current_retry_delay = retry_delay
    /\ sleptInRow = <<>>
    /\ stderr_threads = {1}
    /\ stderr_lines = 0
    /\ undrained = 0
    /\ running = FALSE
    /\ process = 1
    /\ alive = {1}
    /\ nproc = 1
    /\ frame_queue = <<>>
    /\ rpc = "unstarted"
    /\ retry_count = 0
    /\ decoded = 0
    /\ opc = "init"
    /\ released = 0
    /\ lastCall = NoCall
    /\ exhausted = FALSE
    /\ failsInRow = 0
    /\ restartsInRow = 0
    /\ lateEvents = {}
    /\ dropped = 0
    /\ takenAfterStop = 0
    /\ retrieved = <<>>

NextCaptureStarting ==
    \/ StartReaderThread
    \/ StderrLine
    \/ StderrEof
    \/ ReaderLoop
    \/ ReaderReadFrame
    \/ ReaderReadShort
    \/ ReaderReadException
    \/ ReaderCleanup
    \/ ReaderSleep
    \/ ReaderRecheck
    \/ ReaderRestart
    \/ ReaderCheckFull
    \/ ReaderGetNowait
    \/ ReaderPut
    \/ DecoderExits
    \/ ReleaseStart
    \/ ReleaseJoin
    \/ ReleaseTerminate
    \/ ReleaseWait

NextCapture ==
    \/ ReaderLoop
    \/ ReaderReadFrame
    \/ ReaderReadShort
    \/ ReaderReadException
    \/ ReaderCleanup
    \/ ReaderSleep
    \/ ReaderRecheck
    \/ ReaderRestart
    \/ ReaderCheckFull
    \/ ReaderGetNowait
    \/ ReaderPut
    \/ DecoderExits
    \/ Grab
    \/ RetrieveFrame
    \/ RetrieveTimeout
    \/ ReadFrame
    \/ ReadTimeout
    \/ ReleaseStart
    \/ ReleaseJoin
    \/ ReleaseTerminate
    \/ ReleaseWait

(***************************************************************************)
(* The crossing analyzer (analyze.py)                                      *)
(***************************************************************************)
\* Boxes in xywh form (centre and size).  With FrameWidth = 4 the line is at
\* 3: the left edge x - w/2 of these boxes is 1, 2, 3 (on the line) or 4.
AnalyzerBoxes ==
    {[x |-> x, y |-> y, w |-> w, h |-> 2] :
        x \in {2, 4}, y \in 0..2, w \in {0, 2}}

Histories == UNION {[1..k -> AnalyzerBoxes] : k \in 1..MaxHist}

FirstSeen == 10        \* the clock when the object was constructed
Durations == {0, 12}   \* last_seen - first_seen

NoIndex == -1          \* get_crossing_frame returned None
NotRun == -2           \* get_crossing_frame has not been called

Abs(n) == IF n < 0 THEN -n ELSE n

\* TrackedObject.duration
duration(obj) == obj.last_seen - obj.first_seen

\* left_edge = x - w / 2 and vertical_line = frame_width * percent are
\* compared exactly: both sides are scaled by 2 * VerticalLinePercentDen.
LeftEdgeScaled(box) == (2 * box.x - box.w) * VerticalLinePercentDen

VerticalLineScaled(width) == 2 * width * VerticalLinePercentNum

\* left_edge > vertical_line
PastLine(box, width) == LeftEdgeScaled(box) > VerticalLineScaled(width)

\* left_edge < vertical_line
BeforeLine(box, width) == LeftEdgeScaled(box) < VerticalLineScaled(width)

\* Mutant of Action: without a positive or negative delta_y the fallback
\* answers "arriving".
ActionTieArrives(first_box, last_box) ==
    LET delta_x == last_box.x - first_box.x
        delta_y == last_box.y - first_box.y
    IN  IF delta_x < 0 /\ delta_y > 0 THEN "arriving"
        ELSE IF delta_x > 0 /\ delta_y < 0 THEN "departing"
        ELSE IF Abs(delta_x) > Abs(delta_y)
             THEN (IF delta_x > 0 THEN "departing" ELSE "arriving")
             ELSE (IF delta_y >= 0 THEN "arriving" ELSE "departing")

\* Mutant of Action: with equal absolute displacements the x axis decides.
ActionTieToX(first_box, last_box) ==
    LET delta_x == last_box.x - first_box.x
        delta_y == last_box.y - first_box.y
    IN  IF delta_x < 0 /\ delta_y > 0 THEN "arriving"
        ELSE IF delta_x > 0 /\ delta_y < 0 THEN "departing"
        ELSE IF Abs(delta_x) >= Abs(delta_y)
             THEN (IF delta_x > 0 THEN "departing" ELSE "arriving")
             ELSE (IF delta_y > 0 THEN "arriving" ELSE "departing")

\* Mutant of Action: the fallback always lets the x axis decide.
ActionXOnly(first_box, last_box) ==
    LET delta_x == last_box.x - first_box.x
        delta_y == last_box.y - first_box.y
    IN  IF delta_x < 0 /\ delta_y > 0 THEN "arriving"
        ELSE IF delta_x > 0 /\ delta_y < 0 THEN "departing"
        ELSE IF delta_x > 0 THEN "departing" ELSE "arriving"

\* The action chosen from the first and the last box (analyze.py:40-55).
Action(first_box, last_box) ==
    LET delta_x == last_box.x - first_box.x
        delta_y == last_box.y - first_box.y
    IN  IF delta_x < 0 /\ delta_y > 0 THEN "arriving"
        ELSE IF delta_x > 0 /\ delta_y < 0 THEN "departing"
        ELSE IF Abs(delta_x) > Abs(delta_y)
             THEN (IF delta_x > 0 THEN "departing" ELSE "arriving")
             ELSE (IF delta_y > 0 THEN "arriving" ELSE "departing")

\* Mutant of CrossingScan: the scan does not stop at the first crossing and
\* reports the last one.
RECURSIVE CrossingScanLast(_, _, _, _)
CrossingScanLast(boxes, width, crossed_from_right, i) ==
    IF i >= Len(boxes) THEN NoIndex
    ELSE LET later == CrossingScanLast(boxes, width, crossed_from_right, i + 1)
             hit == \/ /\ crossed_from_right
                       /\ PastLine(boxes[i], width)
                       /\ ~PastLine(boxes[i + 1], width)
                    \/ /\ ~crossed_from_right
                       /\ BeforeLine(boxes[i], width)
                       /\ ~BeforeLine(boxes[i + 1], width)
         IN  IF later # NoIndex THEN later ELSE IF hit THEN i ELSE NoIndex

\* The scan for the crossing, from index i on (indices as in the code, from
\* 0: boxes[i] of the code is boxes[i + 1] here).  The loop leaves at the
\* first pair (i - 1, i) on which the left edge changes side.
RECURSIVE CrossingScan(_, _, _, _)
CrossingScan(boxes, width, crossed_from_right, i) ==
    IF i >= Len(boxes) THEN NoIndex
    ELSE IF /\ crossed_from_right
            /\ PastLine(boxes[i], width)
            /\ ~PastLine(boxes[i + 1], width)
         THEN i
    ELSE IF /\ ~crossed_from_right
            /\ BeforeLine(boxes[i], width)
            /\ ~BeforeLine(boxes[i + 1], width)
         THEN i
    ELSE CrossingScan(boxes, width, crossed_from_right, i + 1)

\* Mutant of CrossingFrameScan: the earlier index of the pair is returned.
RECURSIVE CrossingFrameScanEarlier(_, _, _, _)
CrossingFrameScanEarlier(boxes, width, crossed_from_right, i) ==
    IF i >= Len(boxes) THEN NoIndex
    ELSE IF /\ crossed_from_right
            /\ PastLine(boxes[i], width)
            /\ ~PastLine(boxes[i + 1], width)
         THEN i - 1
    ELSE IF /\ ~crossed_from_right
            /\ BeforeLine(boxes[i], width)
            /\ ~BeforeLine(boxes[i + 1], width)
         THEN i - 1
    ELSE CrossingFrameScanEarlier(boxes, width, crossed_from_right, i + 1)

\* get_crossing_frame's own loop (analyze.py:123-138): for i in range(1,
\* len(boxes)), return i at the first pair on which the left edge changes
\* side.
RECURSIVE CrossingFrameScan(_, _, _, _)
CrossingFrameScan(boxes, width, crossed_from_right, i) ==
    IF i >= Len(boxes) THEN NoIndex
    ELSE IF /\ crossed_from_right
            /\ PastLine(boxes[i], width)
            /\ ~PastLine(boxes[i + 1], width)
         THEN i
    ELSE IF /\ ~crossed_from_right
            /\ BeforeLine(boxes[i], width)
            /\ ~BeforeLine(boxes[i + 1], width)
         THEN i
    ELSE CrossingFrameScan(boxes, width, crossed_from_right, i + 1)

\* A timestamp that may be None.  crossed_at = first_seen + i * (duration /
\* len(boxes)) is kept exact as the fraction num / den.
NoTime == [present |-> FALSE, num |-> 0, den |-> 1]

\* Mutant of CrossedAt: the duration is spread over the len(boxes) - 1
\* intervals between the samples.
CrossedAtPerInterval(obj, i) ==
    [present |-> TRUE,
     num |-> obj.first_seen * (Len(obj.boxes) - 1) + i * duration(obj),
     den |-> Len(obj.boxes) - 1]

\* time_per_frame = duration() / len(boxes);
\* crossed_at = first_seen + i * time_per_frame
CrossedAt(obj, i) ==
    [present |-> TRUE,
     num |-> obj.first_seen * Len(obj.boxes) + i * duration(obj),
     den |-> Len(obj.boxes)]

NoDirection == [present |-> FALSE, delta_x |-> 0, delta_y |-> 0,
                start_pos |-> <<0, 0>>, end_pos |-> <<0, 0>>]

\* The dict analyze_tracked_object returns.  With fewer than two boxes it has
\* no 'crossed_from_right' key ("absent"); otherwise the key holds the side of
\* the first box.
analyze_tracked_object(obj, width) ==
    IF Len(obj.boxes) < 2
    THEN [action |-> "unknown", crossed_at |-> NoTime,
          direction |-> NoDirection, crossed_from_right |-> "absent"]
    ELSE LET first_box == obj.boxes[1]
             last_box == obj.boxes[Len(obj.boxes)]
             from_right == PastLine(first_box, width)
             i == CrossingScan(obj.boxes, width, from_right, 1)
         IN  [action |-> Action(first_box, last_box),
              crossed_at |-> IF i = NoIndex THEN NoTime ELSE CrossedAt(obj, i),
              direction |-> [present |-> TRUE,
                             delta_x |-> last_box.x - first_box.x,
                             delta_y |-> last_box.y - first_box.y,
                             start_pos |-> <<first_box.x, first_box.y>>,
                             end_pos |-> <<last_box.x, last_box.y>>],
              crossed_from_right |-> IF from_right THEN "True" ELSE "False"]

\* get_crossing_frame: the index of the crossing, or None.
get_crossing_frame(obj, width) ==
    IF Len(obj.boxes) < 2 THEN NoIndex
    ELSE CrossingFrameScan(obj.boxes, width, PastLine(obj.boxes[1], width), 1)

\* Mutant of ObjectAfterAnalysis: the analyzer consumes the history.
ObjectAfterAnalysisCleared(obj) == [obj EXCEPT !.boxes = <<>>]

\* The TrackedObject after an analyzer function ran on it: neither function
\* assigns to the object or to its lists.
ObjectAfterAnalysis(obj) == obj

NoAnalysis == [action |-> "none", crossed_at |-> NoTime,
               direction |-> NoDirection, crossed_from_right |-> "absent"]

\* analysis = analyze_tracked_object(obj, frame_width, frame_height)
Analyze ==
    /\ analyze_runs < MaxRuns
    /\ analysis' = analyze_tracked_object(tracked_obj, frame_width)
    /\ prev_analysis' = analysis
    /\ analyze_runs' = analyze_runs + 1
    /\ tracked_obj' = ObjectAfterAnalysis(tracked_obj)
    /\ UNCHANGED <<frame_width, crossing_frame_idx, prev_crossing_frame_idx,
                   crossing_runs, snapshot>>
    /\ UNCHANGED trackerVars
    /\ UNCHANGED captureVars
    /\ UNCHANGED mainVars

\* crossing_frame_idx = get_crossing_frame(obj, frame_width)
GetCrossingFrame ==
    /\ crossing_runs < MaxRuns
    /\ crossing_frame_idx' = get_crossing_frame(tracked_obj, frame_width)
    /\ prev_crossing_frame_idx' = crossing_frame_idx
    /\ crossing_runs' = crossing_runs + 1
    /\ tracked_obj' = ObjectAfterAnalysis(tracked_obj)
    /\ UNCHANGED <<frame_width, analysis, prev_analysis, analyze_runs, snapshot>>
    /\ UNCHANGED trackerVars
    /\ UNCHANGED captureVars
    /\ UNCHANGED mainVars

\* The object a finished track hands to the analyzer: a history of 1 to
\* MaxHist boxes, with as many class ids and frame ids.
AnalyzedObjects ==
    {[track_id |-> 1, first_seen |-> FirstSeen, last_seen |-> FirstSeen + d,
      frames_since_seen |-> 1, boxes |-> h,
      class_ids |-> [i \in DOMAIN h |-> CarClass],
      frame_ids |-> [i \in DOMAIN h |-> i]] :
        h \in Histories, d \in Durations}

\* No analyzer function has run yet on tracked_obj.
AnalyzerNotRun ==
    /\ frame_width = FrameWidth
    /\ analysis = NoAnalysis
    /\ prev_analysis = NoAnalysis
    /\ analyze_runs = 0
    /\ crossing_frame_idx = NotRun
    /\ prev_crossing_frame_idx = NotRun
    /\ crossing_runs = 0
    /\ snapshot = tracked_obj

InitAnalyzer ==
    /\ tracked_obj \in AnalyzedObjects
    /\ AnalyzerNotRun

\* The analyzer left alone: tracked_obj is one fixed object.
InitAnalyzerIdle ==
    /\ tracked_obj = CHOOSE o \in AnalyzedObjects :
                         Len(o.boxes) = 1 /\ duration(o) = 0
    /\ AnalyzerNotRun

NextAnalyzer ==
    \/ Analyze
    \/ GetCrossingFrame

(***************************************************************************)
(* The main ingestion loop (main.py)                                       *)
(***************************************************************************)
max_errors_before_reconnect == 10
max_reconnect_attempts == 3

\* HEADLESS = True (main.py:18): no window, so no 'q' key.
HEADLESS == TRUE

NoIteration ==
    [kind |-> "none", failures |-> 0, reconnects |-> 0, attempts |-> 0,
     reconnected |-> FALSE]

\* consecutive_errors >= max_errors_before_reconnect
ErrorsReached(errors) == errors >= max_errors_before_reconnect

\* Mutant of MayReconnect: one reconnect more is allowed.
MayReconnectOnceMore(count) == count <= max_reconnect_attempts

\* reconnect_count < max_reconnect_attempts
MayReconnect(count) == count < max_reconnect_attempts

\* How a failed iteration can go once a reconnect is due.  reconnect_stream
\* (release, FFmpegCapture(url), isOpened) returns, or it raises.  Called
\* inside the try block (lines 238, 254) its exception is caught at line
\* 265: the handler counts one more error and calls reconnect_stream again
\* (line 270), now outside any try.
ReconnectOutcomes(inTry) ==
    IF inTry THEN {"ok", "raised_then_ok", "raised"} ELSE {"ok", "raised"}

\* The three copies of the error handling (lines 235-247, 251-263, 267-279).
\* kind names the failure; inTry says whether the copy is inside the try
\* block.
FailedIteration(kind, inTry) ==
    /\ loop_exit = "none"
    /\ LET errors == consecutive_errors + 1
           fails == failures_run + 1
           iter(attempts, reconnected) ==
               [kind |-> kind, failures |-> fails, reconnects |-> reconnects_run,
                attempts |-> attempts, reconnected |-> reconnected]
       IN  IF ~ErrorsReached(errors)
           THEN /\ consecutive_errors' = errors
                /\ failures_run' = fails
                /\ lastIter' = iter(0, FALSE)
                /\ UNCHANGED <<reconnect_count, reconnects_run, loop_exit>>
           ELSE IF MayReconnect(reconnect_count)
           THEN \E outcome \in ReconnectOutcomes(inTry) :
                    IF outcome = "raised"
                    THEN /\ consecutive_errors' = IF inTry THEN errors + 1 ELSE errors
                         /\ failures_run' = fails
                         /\ loop_exit' = "exception"
                         /\ lastIter' = iter(IF inTry THEN 2 ELSE 1, FALSE)
                         /\ UNCHANGED <<reconnect_count, reconnects_run>>
                    ELSE /\ consecutive_errors' = 0
                         /\ reconnect_count' = reconnect_count + 1
                         /\ failures_run' = 0
                         /\ reconnects_run' = reconnects_run + 1
                         /\ lastIter' = iter(IF outcome = "ok" THEN 1 ELSE 2, TRUE)
                         /\ UNCHANGED loop_exit
           ELSE /\ consecutive_errors' = errors
                /\ failures_run' = fails
                /\ loop_exit' = "max_reconnects"
                /\ lastIter' = iter(0, FALSE)
                /\ UNCHANGED <<reconnect_count, reconnects_run>>
    /\ UNCHANGED trackerVars
    /\ UNCHANGED captureVars
    /\ UNCHANGED analyzerVars

\* if not cap.grab(): the queue was empty
IterGrabFails == FailedIteration("grab_failed", TRUE)

\* success, frame_hd = cap.retrieve(); if not success or frame_hd is None
IterRetrieveFails == FailedIteration("retrieve_failed", TRUE)

\* except Exception as e: grab() or retrieve() raised
IterException == FailedIteration("exception", FALSE)

\* How the rest of an iteration with a frame can go: the frame is processed
\* and the loop goes on; model.track or tracker.update (the eviction
\* callback) raises, with no handler around lines 285-336; or, with a
\* window, 'q' is pressed (line 332).
ProcessOutcomes ==
    {"next", "raised"} \cup (IF HEADLESS THEN {} ELSE {"quit"})

\* An iteration in which grab() and retrieve() succeeded (lines 281-336).
IterFrame ==
    /\ loop_exit = "none"
    /\ consecutive_errors' = 0
    /\ reconnect_count' = 0
    /\ failures_run' = 0
    /\ reconnects_run' = 0
    /\ lastIter' = [kind |-> "frame", failures |-> 0, reconnects |-> 0,
                    attempts |-> 0, reconnected |-> FALSE]
    /\ \E outcome \in ProcessOutcomes :
          loop_exit' = CASE outcome = "next" -> "none"
                         [] outcome = "raised" -> "exception"
                         [] outcome = "quit" -> "quit"
    /\ UNCHANGED trackerVars
    /\ UNCHANGED captureVars
    /\ UNCHANGED analyzerVars

\* Ctrl+C ("Press Ctrl+C to quit", line 222): KeyboardInterrupt is not an
\* Exception, so line 265 does not catch it.
KeyboardInterrupt ==
    /\ loop_exit = "none"
    /\ loop_exit' = "interrupt"
    /\ UNCHANGED <<consecutive_errors, reconnect_count, failures_run,
                   reconnects_run, lastIter>>
    /\ UNCHANGED trackerVars
    /\ UNCHANGED captureVars
    /\ UNCHANGED analyzerVars

\* main.py:226-229
InitMainLoop ==
    /\ consecutive_errors = 0
    /\ reconnect_count = 0
    /\ loop_exit = "none"
    /\ failures_run = 0
    /\ reconnects_run = 0
    /\ lastIter = NoIteration

NextMainLoop ==
    \/ IterGrabFails
    \/ IterRetrieveFails
    \/ IterException
    \/ IterFrame
    \/ KeyboardInterrupt

(***************************************************************************)
(* Specifications                                                          *)
(***************************************************************************)
\* The tracker driven by bounded detection lists; the capture is constructed
\* and left alone.
InitT ==
    /\ InitMainLoop
    /\ InitTracker
    /\ InitCapture
    /\ max_retries = NoRetryLimit
    /\ retry_delay = DefaultRetryDelay
    /\ InitAnalyzerIdle

NextTracker ==
    \/ \E dets \in DetectionLists, hd \in {NoFrame, HdFrame} :
          \E raiser \in Raisers(dets) : Update(dets, hd, raiser)
    \/ AssignFrame(HdFrame)

SpecTracker == InitT /\ [][NextTracker]_vars

\* The tracker driven by detector results, among them empty, untracked and
\* mismatched ones.
InitR ==
    /\ InitT
    /\ target_class_ids = <<CarClass, TruckClass>>

NextTrackerResults ==
    \/ \E result \in DetectorResults, hd \in {NoFrame, HdFrame} :
          \E raiser \in Raisers(DetectionsOf(result)) :
              Update(DetectionsOf(result), hd, raiser)
    \/ AssignFrame(HdFrame)

SpecTrackerResults == InitR /\ [][NextTrackerResults]_vars

\* The capture's reader thread, its owning thread and the decoder,
\* interleaved; the tracker is constructed and left alone.
InitC ==
    /\ InitMainLoop
    /\ InitCapture
    /\ InitTracker
    /\ target_class_ids = <<CarClass, TruckClass>>
    /\ frames_before_purge = 1
    /\ InitAnalyzerIdle

SpecCapture == InitC /\ [][NextCapture]_vars

\* The capture with max_retries=None and release() never called.  The
\* reader thread keeps running: its cleanup (terminate, wait of at most 2 s,
\* kill), its sleep (a finite delay), its test of self.running and Popen
\* each come to an end, so each is taken once it is the reader's next step.
\* The pipe read gets no such condition: it can block for as long as the
\* decoder lives and sends nothing.
InitU ==
    /\ InitC
    /\ max_retries = NoRetryLimit

NextCaptureUnreleased ==
    \/ ReaderLoop
    \/ ReaderReadFrame
    \/ ReaderReadShort
    \/ ReaderReadException
    \/ ReaderCleanup
    \/ ReaderSleep
    \/ ReaderRecheck
    \/ ReaderRestart
    \/ ReaderCheckFull
    \/ ReaderGetNowait
    \/ ReaderPut
    \/ DecoderExits
    \/ Grab
    \/ RetrieveFrame
    \/ RetrieveTimeout
    \/ ReadFrame
    \/ ReadTimeout

SpecCaptureUnlimited ==
    /\ InitU
    /\ [][NextCaptureUnreleased]_vars
    /\ WF_vars(ReaderCleanup)
    /\ WF_vars(ReaderSleep)
    /\ WF_vars(ReaderRecheck)
    /\ WF_vars(ReaderRestart)

\* The capture from inside its constructor on, with the decoders writing to
\* stderr; the tracker and the analyzer are left alone.
InitS ==
    /\ InitMainLoop
    /\ InitStarting
    /\ InitTracker
    /\ target_class_ids = <<CarClass, TruckClass>>
    /\ frames_before_purge = 1
    /\ InitAnalyzerIdle

SpecCaptureStarting == InitS /\ [][NextCaptureStarting]_vars

\* The main loop, with the outcomes of grab(), retrieve(), reconnect_stream
\* and the processing as inputs; tracker, capture and analyzer are left
\* alone.
InitM ==
    /\ InitC
    /\ max_retries = NoRetryLimit
    /\ retry_delay = DefaultRetryDelay

SpecMainLoop == InitM /\ [][NextMainLoop]_vars

\* The analyzer applied to bounded histories; the tracker and the capture
\* are constructed and left alone.
InitA ==
    /\ InitMainLoop
    /\ InitAnalyzer
    /\ InitTracker
    /\ target_class_ids = <<CarClass, TruckClass>>
    /\ frames_before_purge = 1
    /\ InitCapture
    /\ max_retries = NoRetryLimit
    /\ retry_delay = DefaultRetryDelay

SpecAnalyzer == InitA /\ [][NextAnalyzer]_vars

(***************************************************************************)
(* Claims about the tracker (checked under SpecTracker).                   *)
(***************************************************************************)
LiveIds == DOMAIN tracked_objects

LastOf(s) == s[Len(s)]

\* The number of history entries of obj whose class id is one of the
\* configured target classes (membership in the SET of target classes).
TargetEntries(obj) ==
    Cardinality({i \in DOMAIN obj.class_ids :
                    obj.class_ids[i] \in Range(target_class_ids)})

\* C1 as stated: every track id that is evicted has had on_object_lost
\* called exactly once, and that in the cycle in which its frames_since_seen
\* reached frames_before_purge.
C1_ExactlyOncePerTrackId ==
    \A e \in purgeLog :
        /\ lostCount[e.obj.track_id] = 1
        /\ e.obj.frames_since_seen = frames_before_purge

\* C1 amended: on_object_lost is called at most once per tracked object (the
\* calls for a track id never outnumber the objects of that id that are no
\* longer live, and an object handed to the callback is gone from the live
\* set), and every object popped by update() has frames_since_seen >=
\* frames_before_purge, reached through that many consecutive cycles with no
\* detection of its track id: its last frame id is the cycle of the purge
\* minus frames_since_seen.
C1_EvictionOnceAfterThreshold ==
    /\ \A t \in TrackIds :
          lostCount[t] <= createdCount[t] - (IF t \in LiveIds THEN 1 ELSE 0)
    /\ \A e \in purgeLog :
          /\ e.obj.frames_since_seen >= frames_before_purge
          /\ e.obj.frame_ids # <<>>
          /\ LastOf(e.obj.frame_ids) = e.at - e.obj.frames_since_seen
          /\ e.called => ~e.liveAtCall
          /\ e.obj.track_id \in LiveIds =>
                tracked_objects[e.obj.track_id].first_seen > e.at
    /\ \A e1, e2 \in purgeLog :
          e1.obj.track_id = e2.obj.track_id => e1 = e2

\* C1 witness: the callback has just been called for the second object that
\* carried a track id (the id was reused after its first eviction).
C1_Witness ==
    \E e \in purgeLog :
        /\ e.called
        /\ lostCount[e.obj.track_id] = 2
        /\ e.obj.frames_since_seen = frames_before_purge

\* C2: every live object, and every object handed to the eviction callback,
\* has boxes, class_ids and frame_ids of equal length.
C2_ParallelLengths ==
    /\ \A t \in LiveIds :
          /\ Len(tracked_objects[t].boxes) = Len(tracked_objects[t].class_ids)
          /\ Len(tracked_objects[t].class_ids) = Len(tracked_objects[t].frame_ids)
    /\ \A e \in purgeLog :
          /\ Len(e.obj.boxes) = Len(e.obj.class_ids)
          /\ Len(e.obj.class_ids) = Len(e.obj.frame_ids)

\* C2 witness: one update() both created an object and handed another one,
\* with a history of several entries, to the callback.
C2_Witness ==
    /\ lastOp = "update"
    /\ \E t \in LiveIds : tracked_objects[t].first_seen = current_frame
    /\ \E e \in purgeLog : e.called /\ Len(e.obj.boxes) > 1

\* C3: when update() has returned, every key of hd_frames is a frame id of
\* some live object.
C3_HdCacheSubset ==
    lastOp = "update" =>
        \A f \in DOMAIN hd_frames :
            \E t \in LiveIds :
                \E i \in DOMAIN tracked_objects[t].frame_ids :
                    tracked_objects[t].frame_ids[i] = f

\* C3 witness: an update() returned after deleting cached frames and keeping
\* others.
C3_Witness ==
    /\ lastOp = "update"
    /\ pruned # {}
    /\ hd_frames # <<>>

\* C4 as stated: an object popped by update() is handed to the callback if
\* and only if the share of its history entries whose class id is in the
\* set of target classes is at least min_class_percentage; in either case it
\* is gone from the live set.
C4_CallbackIffTargetShare ==
    \A e \in purgeLog :
        /\ e.called <=>
              TargetEntries(e.obj) * 100 >= min_class_percentage * Len(e.obj.class_ids)
        /\ ~e.liveAtCall

(***************************************************************************)
(* Claims about the capture (checked under SpecCapture).                   *)
(***************************************************************************)
\* C5 as stated: when the reader has stopped because the retries ran out,
\* max_retries + 1 reads in a row have failed, exactly max_retries restarts
\* were made for them, the reader has ended and isOpened() is false.
C5_StopsClosedAfterRetries ==
    exhausted =>
        /\ failsInRow = max_retries + 1
        /\ restartsInRow = max_retries
        /\ rpc = "done"
        /\ ~isOpened

\* C6 as stated: every grab() and retrieve() called after the reader has
\* stopped for exhausted retries reports failure.
C6_AlwaysFailsAfterStop ==
    lastCall.afterStop => (~lastCall.ok /\ lastCall.frame = NoFrame)

\* C6 amended: once the reader has stopped for exhausted retries it has
\* ended and adds no frame, so that at most the QueueMax frames queued
\* before are still retrieved; a grab() or retrieve() called after the stop
\* reports failure exactly when the queue is empty, and a failed call
\* returns no frame.
C6_FailsOnceDrained ==
    /\ exhausted =>
          /\ rpc = "done"
          /\ takenAfterStop + Len(frame_queue) <= QueueMax
    /\ lastCall.afterStop =>
          /\ lastCall.ok <=> lastCall.remaining > 0
          /\ ~lastCall.ok => lastCall.frame = NoFrame

\* C6 witness: after the stop the queued frames were retrieved, and the
\* retrieve() that followed returned (False, None).
C6_Witness ==
    /\ exhausted
    /\ takenAfterStop > 0
    /\ lastCall.afterStop
    /\ lastCall.op = "retrieve"
    /\ ~lastCall.ok

\* C7 as stated: once a release() has returned, the reader thread has ended,
\* and it has neither queued a frame nor started a decoder since.
C7_ReaderJoinedAtRelease ==
    released > 0 => (rpc = "done" /\ lateEvents = {})

\* C8 as stated: once a release() has returned, running is false and the
\* capture's decoder process is not alive, also during and after a second
\* release().
C8_ReleaseTerminal ==
    released > 0 => (~running /\ ~isOpened)

\* C9: the queue never holds more than QueueMax frames; the reader never
\* reaches put() with a full queue, so the insert never blocks; the queued
\* frames are consecutive in decode order (what is discarded is the oldest),
\* and once a frame is inserted it is the newest in the queue.
C9_DropOldestNeverBlocks ==
    /\ Len(frame_queue) <= QueueMax
    /\ rpc = "put" => Len(frame_queue) < QueueMax
    /\ \A i \in 1..(Len(frame_queue) - 1) : frame_queue[i + 1] = frame_queue[i] + 1
    /\ (frame_queue # <<>> /\ rpc \notin {"full", "getnw", "put"}) =>
          frame_queue[Len(frame_queue)] = decoded

\* C9 witness: with no consumer call at all, the reader found the queue
\* full, discarded the oldest frame and inserted the new one.
C9_Witness ==
    /\ lastCall.op = "none"
    /\ dropped > 0
    /\ rpc = "loop"
    /\ Len(frame_queue) = QueueMax
    /\ frame_queue[1] > 1

\* C10 as stated: retrieve() returns the most recently produced frame that
\* was in the queue when it was called, and (False, None) when the queue
\* stayed empty.
C10_RetrieveReturnsNewest ==
    lastCall.op = "retrieve" =>
        IF lastCall.remaining > 0
        THEN lastCall.ok /\ lastCall.frame = lastCall.newest
        ELSE ~lastCall.ok /\ lastCall.frame = NoFrame

\* C11: grab() answers true exactly when the queue holds a frame and leaves
\* the queue as it was; read() and retrieve() answer what grab() answers in
\* the same state (read() is grab() followed by retrieve(), grab() changing
\* nothing), a successful one returns the head of the queue and removes
\* exactly that one frame, a failed one returns no frame and removes nothing.
C11_GrabPeeksReadConsumesOne ==
    [][lastCall' # lastCall =>
         /\ lastCall'.ok <=> frame_queue # <<>>
         /\ lastCall'.op = "grab" => frame_queue' = frame_queue
         /\ lastCall'.op \in {"retrieve", "read"} =>
               IF lastCall'.ok
               THEN /\ lastCall'.frame = Head(frame_queue)
                    /\ frame_queue' = Tail(frame_queue)
                    /\ Len(frame_queue') = Len(frame_queue) - 1
               ELSE /\ lastCall'.frame = NoFrame
                    /\ frame_queue' = frame_queue]_vars

\* C11 witness: read() returned a frame out of a queue of two and one frame
\* is left.
C11_Witness ==
    /\ lastCall.op = "read"
    /\ lastCall.ok
    /\ lastCall.remaining = QueueMax
    /\ Len(frame_queue) = QueueMax - 1

(***************************************************************************)
(* Claims about the analyzer (checked under SpecAnalyzer).                 *)
(***************************************************************************)
FirstBox == tracked_obj.boxes[1]

LastBox == tracked_obj.boxes[Len(tracked_obj.boxes)]

DeltaX == LastBox.x - FirstBox.x

DeltaY == LastBox.y - FirstBox.y

\* C12: for a history of at least 2 positions the action is "arriving" or
\* "departing" and follows from delta_x and delta_y of the first and last
\* centres: delta_x < 0 and delta_y > 0 is "arriving"; delta_x > 0 and
\* delta_y < 0 is "departing"; otherwise the axis with the larger absolute
\* displacement decides (x: positive departing, negative arriving; y:
\* positive arriving, negative departing).  With fewer than 2 positions the
\* action is "unknown" and crossed_at is absent.
C12_ActionFromEndpoints ==
    analyze_runs > 0 =>
        IF Len(tracked_obj.boxes) >= 2
        THEN /\ analysis.action \in {"arriving", "departing"}
             /\ analysis.direction.present
             /\ analysis.direction.delta_x = DeltaX
             /\ analysis.direction.delta_y = DeltaY
             /\ (DeltaX < 0 /\ DeltaY > 0) => analysis.action = "arriving"
             /\ (DeltaX > 0 /\ DeltaY < 0) => analysis.action = "departing"
             /\ (~(DeltaX < 0 /\ DeltaY > 0) /\ ~(DeltaX > 0 /\ DeltaY < 0)) =>
                   /\ (Abs(DeltaX) > Abs(DeltaY) /\ DeltaX > 0) =>
                         analysis.action = "departing"
                   /\ (Abs(DeltaX) > Abs(DeltaY) /\ DeltaX < 0) =>
                         analysis.action = "arriving"
                   /\ (Abs(DeltaY) > Abs(DeltaX) /\ DeltaY > 0) =>
                         analysis.action = "arriving"
                   /\ (Abs(DeltaY) > Abs(DeltaX) /\ DeltaY < 0) =>
                         analysis.action = "departing"
        ELSE /\ analysis.action = "unknown"
             /\ ~analysis.crossed_at.present

\* C12 witness: a history of three positions that only moved up (delta_x =
\* 0, delta_y < 0) was classified "departing" by the y axis.
C12_Witness ==
    /\ analyze_runs > 0
    /\ Len(tracked_obj.boxes) = 3
    /\ DeltaX = 0
    /\ DeltaY < 0
    /\ analysis.action = "departing"

\* The indices i (as in the code, from 0) of the adjacent pairs (i - 1, i) on
\* which the left edge cx - w/2 changes side: from strictly past the line to
\* at or before it when the first sample is strictly past the line, from
\* strictly before it to at or after it otherwise.
StartsFromRight == LeftEdgeScaled(FirstBox) > VerticalLineScaled(frame_width)

CrossingPairs ==
    {i \in 1..(Len(tracked_obj.boxes) - 1) :
        LET prev == LeftEdgeScaled(tracked_obj.boxes[i])
            cur == LeftEdgeScaled(tracked_obj.boxes[i + 1])
            line == VerticalLineScaled(frame_width)
        IN  IF StartsFromRight
            THEN prev > line /\ cur <= line
            ELSE prev < line /\ cur >= line}

FirstCrossing == CHOOSE i \in CrossingPairs : \A j \in CrossingPairs : i <= j

\* C13: on a history of at least 2 samples crossed_from_right is true iff
\* the first sample's left edge is strictly past the line; a crossing is
\* reported iff some adjacent pair changes side, and then it is the first
\* such pair, reported at its later index (by get_crossing_frame as the
\* index, by analyze_tracked_object as the time of that index); on a history
\* of 1 sample no crossing is reported.
C13_FirstCrossingAtLaterIndex ==
    /\ crossing_runs > 0 =>
          crossing_frame_idx =
              IF CrossingPairs = {} THEN NoIndex ELSE FirstCrossing
    /\ (analyze_runs > 0 /\ Len(tracked_obj.boxes) >= 2) =>
          /\ analysis.crossed_from_right =
                (IF StartsFromRight THEN "True" ELSE "False")
          /\ analysis.crossed_at.present <=> CrossingPairs # {}
          /\ analysis.crossed_at.present =>
                /\ analysis.crossed_at.den = Len(tracked_obj.boxes)
                /\ analysis.crossed_at.num =
                      tracked_obj.first_seen * Len(tracked_obj.boxes)
                      + FirstCrossing * (tracked_obj.last_seen - tracked_obj.first_seen)
    /\ (analyze_runs > 0 /\ Len(tracked_obj.boxes) < 2) =>
          ~analysis.crossed_at.present

\* C13 witness: the left edge started right of the line, crossed it between
\* samples 0 and 1, went back and crossed it again between samples 2 and 3;
\* both functions ran and the crossing is reported at index 1.
C13_Witness ==
    /\ crossing_runs > 0
    /\ analyze_runs > 0
    /\ tracked_obj.last_seen > tracked_obj.first_seen
    /\ StartsFromRight
    /\ CrossingPairs = {1, 3}
    /\ crossing_frame_idx = 1
    /\ analysis.crossed_from_right = "True"
    /\ analysis.crossed_at.present

C15_SuccessResetsRetryState ==
    /\ rpc \in {"full", "getnw", "put"} =>
          (retry_count = 0 /\ current_retry_delay = retry_delay)
    /\ failsInRow = 0 => (retry_count = 0 /\ current_retry_delay = retry_delay)
    /\ sleptInRow # <<>> => sleptInRow[1] = retry_delay
    /\ retry_count <= failsInRow
    /\ exhausted => failsInRow = max_retries + 1

\* C15 witness: the stream was restarted, a frame was read, and the
\* disconnection after that slept the base delay again.
C15_Witness ==
    /\ nproc - 1 > restartsInRow
    /\ decoded > 0
    /\ sleptInRow = <<retry_delay>>
    /\ retry_count = 1

\* C16 as stated: the delays slept in a run of consecutive failed reads
\* follow delay := min(delay x 1.5, 30), are non-decreasing, and none is
\* above the 30-second ceiling, whatever the configured retry_delay.
C16_BackoffMonotoneCapped ==
    /\ \A i \in DOMAIN sleptInRow : sleptInRow[i] <= MaxRetryDelay
    /\ \A i \in 1..(Len(sleptInRow) - 1) :
          /\ sleptInRow[i] <= sleptInRow[i + 1]
          /\ 2 * sleptInRow[i + 1] =
                (IF 3 * sleptInRow[i] < 2 * MaxRetryDelay
                 THEN 3 * sleptInRow[i] ELSE 2 * MaxRetryDelay)

(***************************************************************************)
(* Further claims about the tracker (checked under SpecTracker).           *)
(***************************************************************************)
\* C17 as stated: whether or not the eviction callback raised, update()
\* returns normally; every object handed to the callback was already removed;
\* no object that was due for purge in the cycle is left in the live set;
\* and the HD cache holds only frames some live object references.
C17_CallbackExceptionContained ==
    lastOp \in {"update", "update_raised"} =>
        /\ lastOp = "update"
        /\ \A e \in purgeLog : ~e.liveAtCall
        /\ \A t \in LiveIds :
              ~DueForPurge(tracked_objects[t], frames_before_purge)
        /\ DOMAIN hd_frames \subseteq ReferencedFrames(tracked_objects)

\* C18: in every ledger state and for every detection list, update() with
\* hd_frame=None and update() with an HD frame end in the same
\* tracked_objects (ids, dict order, histories, frames_since_seen), the same
\* current_frame, the same returned list and the same eviction callbacks
\* (and the same one raising, if one does); only hd_frames may differ.
C18_HdFrameDoesNotAffectTracking ==
    \A dets \in DetectionLists :
        \A raiser \in Raisers(dets) :
            LET a == UpdateResult(dets, NoFrame, raiser)
                b == UpdateResult(dets, HdFrame, raiser)
            IN  /\ a.objs = b.objs
                /\ a.ord = b.ord
                /\ a.frame = b.frame
                /\ a.returned = b.returned
                /\ a.log = b.log
                /\ a.raised = b.raised

\* C18 witness: an update() without an HD frame (the frame id it minted is
\* in a live object's history and not in the cache) tracked one object and
\* handed another one to the callback.
C18_Witness ==
    /\ lastOp = "update"
    /\ current_frame \notin DOMAIN hd_frames
    /\ \E t \in LiveIds : LastOf(tracked_objects[t].frame_ids) = current_frame
    /\ \E e \in purgeLog : e.called

\* C19: a step that changes current_frame is an update() and adds exactly 1;
\* every history that grows in that step grows by one entry whose frame id
\* is the new current_frame, and an object created in it has that id as its
\* only frame id; assignFrame() leaves current_frame alone and stores the
\* frame under current_frame, the id the most recent update() minted,
\* changing no other cache entry; the cache never has a key above
\* current_frame, so a cycle adds at most one entry.
C19_FrameIdMintedByUpdate ==
    [][/\ current_frame' # current_frame =>
             /\ current_frame' = current_frame + 1
             /\ lastOp' \in {"update", "update_raised"}
       /\ lastOp' \in {"update", "update_raised"} =>
             /\ current_frame' = current_frame + 1
             /\ \A t \in DOMAIN tracked_objects' :
                   LET new == tracked_objects'[t].frame_ids
                   IN  IF t \in DOMAIN tracked_objects
                       THEN \/ new = tracked_objects[t].frame_ids
                            \/ new = Append(tracked_objects[t].frame_ids,
                                            current_frame')
                            \/ new = <<current_frame'>>
                       ELSE new = <<current_frame'>>
             /\ (DOMAIN hd_frames') \ (DOMAIN hd_frames) \subseteq {current_frame'}
       /\ lastOp' = "assignFrame" =>
             /\ current_frame' = current_frame
             /\ DOMAIN hd_frames' = (DOMAIN hd_frames) \cup {current_frame}
             /\ hd_frames'[current_frame] = HdFrame
             /\ \A f \in (DOMAIN hd_frames) \ {current_frame} :
                   hd_frames'[f] = hd_frames[f]
       /\ \A f \in DOMAIN hd_frames' : f <= current_frame']_vars

\* C19 witness: after the second update() or a later one, made without an HD
\* frame, assignFrame() stored the frame under the id that update() gave to
\* the history entries of the cycle, next to an entry of an earlier cycle.
C19_Witness ==
    /\ lastOp = "assignFrame"
    /\ current_frame >= 2
    /\ current_frame \in DOMAIN hd_frames
    /\ \E f \in DOMAIN hd_frames : f < current_frame /\ f > 0
    /\ \E t \in LiveIds :
          /\ Len(tracked_objects[t].frame_ids) >= 2
          /\ LastOf(tracked_objects[t].frame_ids) = current_frame

(***************************************************************************)
(* Claims about the unlimited capture (checked under SpecCaptureUnlimited).*)
(***************************************************************************)
\* C20: with max_retries=None and no release(), the reader never leaves its
\* loop, and every failed read (short read or exception) is followed, as
\* long as the model has a decoder left to start, by the stale decoder being
\* terminated, the backoff delay being slept and a new decoder being
\* started, after which the reader is back at the top of its loop.
C20_RestartsForever ==
    /\ [](rpc # "done" /\ ~exhausted)
    /\ \A k \in 1..(MaxProc - 1) :
          (rpc = "cleanup" /\ nproc = k)
              ~> (/\ rpc = "loop"
                  /\ nproc = k + 1
                  /\ process = k + 1
                  /\ k \notin alive
                  /\ sleptInRow # <<>>)

\* C20 witness: every decoder of the model was started, each restart after
\* a failed read with no successful read in between, and the reader is at
\* the top of its loop again.
C20_Witness ==
    /\ max_retries = NoRetryLimit
    /\ nproc = MaxProc
    /\ rpc = "loop"
    /\ failsInRow = MaxProc - 1
    /\ restartsInRow = MaxProc - 1
    /\ Len(sleptInRow) = MaxProc - 1
    /\ running

(***************************************************************************)
(* Claims about one update() cycle (checked under SpecTracker).            *)
(***************************************************************************)
\* The detection of the list dets that carries track id t.
DetectionOf(dets, t) == dets[CHOOSE i \in DOMAIN dets : dets[i].track_id = t]

MatchedIn(dets, t) == \E i \in DOMAIN dets : dets[i].track_id = t

\* C21: for every update() the model takes from a state: a detection whose
\* track id is live appends its box, class id and the new frame id to that
\* object and sets frames_since_seen to 0; a detection whose track id is not
\* live creates an object whose history is exactly that detection, with
\* frames_since_seen 0; a live object with no detection has frames_since_seen
\* raised by exactly 1 and nothing else changed (it is then either still
\* live or the object popped by the purge); nothing else becomes live.
C21_CycleEffects ==
    current_frame < MaxFrame =>
        \A dets \in DetectionLists :
            \A raiser \in Raisers(dets) :
                LET r == UpdateResult(dets, NoFrame, raiser)
                    frame == current_frame + 1
                IN  \A t \in TrackIds :
                        LET d == DetectionOf(dets, t)
                            old == tracked_objects[t]
                        IN  IF MatchedIn(dets, t)
                            THEN /\ t \in DOMAIN r.objs
                                 /\ r.objs[t].frames_since_seen = 0
                                 /\ IF t \in LiveIds
                                    THEN /\ r.objs[t].boxes = Append(old.boxes, d.box)
                                         /\ r.objs[t].class_ids = Append(old.class_ids, d.cls)
                                         /\ r.objs[t].frame_ids = Append(old.frame_ids, frame)
                                         /\ r.objs[t].first_seen = old.first_seen
                                    ELSE /\ r.objs[t].boxes = <<d.box>>
                                         /\ r.objs[t].class_ids = <<d.cls>>
                                         /\ r.objs[t].frame_ids = <<frame>>
                            ELSE IF t \in LiveIds
                                 THEN LET aged == [old EXCEPT !.frames_since_seen = @ + 1]
                                      IN  IF t \in DOMAIN r.objs
                                          THEN r.objs[t] = aged
                                          ELSE \E e \in r.log : e.obj = aged
                                 ELSE t \notin DOMAIN r.objs

\* C21 witness: an update() has appended to one object (its history has
\* several entries and frames_since_seen is 0) and aged another one, and a
\* further update() can follow.
C21_Witness ==
    /\ lastOp = "update"
    /\ current_frame < MaxFrame
    /\ \E t \in LiveIds :
          /\ Len(tracked_objects[t].frame_ids) >= 2
          /\ LastOf(tracked_objects[t].frame_ids) = current_frame
          /\ tracked_objects[t].frames_since_seen = 0
    /\ \E t \in LiveIds :
          /\ tracked_objects[t].frames_since_seen = 1
          /\ LastOf(tracked_objects[t].frame_ids) = current_frame - 1

(***************************************************************************)
(* Claims about detector results (checked under SpecTrackerResults).       *)
(***************************************************************************)
\* The positions of a result at which box, track id and class id are all
\* there, when the result is tracked at all.
WellFormedPositions(result) ==
    IF result.is_track
    THEN (DOMAIN result.boxes) \cap (DOMAIN result.id) \cap (DOMAIN result.cls)
    ELSE {}

\* C22: for every detector result, well-formed, empty, untracked or with
\* lists of different lengths, update() advances the frame id by 1, creates
\* or updates exactly the objects of the well-formed positions, ages every
\* other live object by 1, and, unless a callback raises, leaves no object
\* that is due, no cached frame that no live object references, and returns
\* the live objects.
C22_MalformedResultNotFatal ==
    current_frame < MaxFrame =>
        \A result \in DetectorResults :
            \A raiser \in Raisers(DetectionsOf(result)) :
                LET r == UpdateResult(DetectionsOf(result), HdFrame, raiser)
                    ids == {result.id[i] : i \in WellFormedPositions(result)}
                IN  /\ r.frame = current_frame + 1
                    /\ \A t \in DOMAIN r.objs :
                          IF t \in ids
                          THEN /\ LastOf(r.objs[t].frame_ids) = r.frame
                               /\ r.objs[t].frames_since_seen = 0
                          ELSE /\ t \in LiveIds
                               /\ r.objs[t] =
                                     [tracked_objects[t] EXCEPT
                                         !.frames_since_seen = @ + 1]
                    /\ ids \subseteq DOMAIN r.objs
                    /\ ~r.raised =>
                          /\ \A t \in DOMAIN r.objs :
                                ~DueForPurge(r.objs[t], frames_before_purge)
                          /\ DOMAIN r.hd \subseteq ReferencedFrames(r.objs)
                          /\ Range(r.returned) = Range(r.objs)
                          /\ Len(r.returned) = Cardinality(DOMAIN r.objs)

\* C22 witness: an update() whose result had no well-formed detection (no
\* live object has the new frame id) aged a live object, evicted another
\* one and pruned the cache.
C22_Witness ==
    /\ lastOp = "update"
    /\ \A t \in LiveIds : LastOf(tracked_objects[t].frame_ids) < current_frame
    /\ \E t \in LiveIds : tracked_objects[t].frames_since_seen >= 1
    /\ purgeLog # {}
    /\ pruned # {}

(***************************************************************************)
(* Further claims about the analyzer (checked under SpecAnalyzer).         *)
(***************************************************************************)
\* C23: when a crossing is detected at index i of a history of n samples,
\* crossed_at is first_seen + i x (last_seen - first_seen) / n (compared as
\* fractions); when no crossing is detected crossed_at is absent.
C23_CrossedAtUniformSpacing ==
    analyze_runs > 0 =>
        IF Len(tracked_obj.boxes) >= 2 /\ CrossingPairs # {}
        THEN /\ analysis.crossed_at.present
             /\ analysis.crossed_at.den > 0
             /\ analysis.crossed_at.num * Len(tracked_obj.boxes) =
                   analysis.crossed_at.den *
                      (tracked_obj.first_seen * Len(tracked_obj.boxes)
                       + FirstCrossing
                         * (tracked_obj.last_seen - tracked_obj.first_seen))
        ELSE ~analysis.crossed_at.present

\* C23 witness: a crossing at index 2 of 4 samples tracked for 12 seconds
\* is reported 2 x 12 / 4 = 6 seconds after first_seen.
C23_Witness ==
    /\ analyze_runs > 0
    /\ Len(tracked_obj.boxes) = 4
    /\ tracked_obj.last_seen - tracked_obj.first_seen = 12
    /\ CrossingPairs # {}
    /\ FirstCrossing = 2
    /\ analysis.crossed_at.present
    /\ analysis.crossed_at.num =
          (tracked_obj.first_seen + 6) * analysis.crossed_at.den

\* C24: a history of at least 2 positions whose first and last centres are
\* equal is classified "departing".
C24_ZeroDisplacementDeparting ==
    (/\ analyze_runs > 0
     /\ Len(tracked_obj.boxes) >= 2
     /\ DeltaX = 0
     /\ DeltaY = 0) => analysis.action = "departing"

\* C24 witness: a history that moved away and came back to its first centre
\* was analyzed.
C24_Witness ==
    /\ analyze_runs > 0
    /\ Len(tracked_obj.boxes) = 3
    /\ DeltaX = 0
    /\ DeltaY = 0
    /\ tracked_obj.boxes[2].x # FirstBox.x
    /\ analysis.action = "departing"

\* C30: once both functions have run on a history, crossed_at is present
\* exactly when get_crossing_frame returned an index i, crossed_at is then
\* first_seen + i x duration / sample count for that i, and with fewer than
\* 2 samples both report no crossing.
C30_AnalyzerFunctionsAgree ==
    (analyze_runs > 0 /\ crossing_runs > 0) =>
        /\ analysis.crossed_at.present <=> crossing_frame_idx # NoIndex
        /\ analysis.crossed_at.present =>
              analysis.crossed_at.num * Len(tracked_obj.boxes) =
                 analysis.crossed_at.den *
                    (tracked_obj.first_seen * Len(tracked_obj.boxes)
                     + crossing_frame_idx
                       * (tracked_obj.last_seen - tracked_obj.first_seen))
        /\ Len(tracked_obj.boxes) < 2 =>
              (~analysis.crossed_at.present /\ crossing_frame_idx = NoIndex)

\* C30 witness: both functions ran on a history that starts left of the
\* line and crosses it at index 3.
C30_Witness ==
    /\ analyze_runs > 0
    /\ crossing_runs > 0
    /\ tracked_obj.last_seen > tracked_obj.first_seen
    /\ ~StartsFromRight
    /\ crossing_frame_idx = 3
    /\ analysis.crossed_at.present
    /\ analysis.crossed_from_right = "False"

(***************************************************************************)
(* Claims about the capture's threads.                                     *)
(***************************************************************************)
\* C25 as stated (checked under SpecCapture): the decoder process handle is
\* never read by one thread while the other assigns it: the owning thread
\* is never at release()'s self.process.terminate() or self.process.wait()
\* while the reader thread is inside _restart_stream, about to assign
\* self.process.
C25_ProcessHandleNotShared ==
    ~(rpc = "restart" /\ opc \in {"terminate", "wait"})

\* C26 as stated (checked under SpecCaptureStarting): from the start of a
\* decoder until release() is called, every decoder that is running has its
\* logging thread, and no stderr line stays unread in a pipe.
C26_StderrDrainedWhileDecoderRuns ==
    (released = 0 /\ opc \in {"init", "idle"}) =>
        (alive \subseteq stderr_threads /\ undrained = 0)

(***************************************************************************)
(* Claims about eviction order, the ledger after update() and track-id     *)
(* reuse (checked under SpecTracker).                                      *)
(***************************************************************************)
\* C27: for every update() the model takes from a state, and every object
\* for which that update() calls the callback: the object is no longer in
\* tracked_objects when the callback runs; every HD frame that was cached
\* for one of its frame ids when update() was entered is in the cache the
\* callback finds, unchanged, so get_frames_for_object(obj) in the callback
\* returns those frames; the cache is left as the callbacks found it when a
\* callback raises; and the pruning at the end never deletes a frame of an
\* object that stays live.
C27_CallbackAfterPopBeforePrune ==
    current_frame < MaxFrame =>
        \A dets \in DetectionLists, hd \in {NoFrame, HdFrame} :
            \A raiser \in Raisers(dets) :
                LET r == UpdateResult(dets, hd, raiser)
                IN  /\ \A e \in r.log :
                          e.called =>
                            /\ ~e.liveAtCall
                            /\ e.obj.track_id \notin DOMAIN r.objs
                            /\ \A f \in Range(e.obj.frame_ids) \cap DOMAIN hd_frames :
                                  /\ f \in DOMAIN r.stored
                                  /\ r.stored[f] = hd_frames[f]
                            /\ get_frames_for_object(e.obj, r.stored)
                                  = get_frames_for_object(e.obj, hd_frames)
                    /\ r.raised => r.hd = r.stored
                    /\ \A t \in DOMAIN r.objs :
                          \A f \in Range(r.objs[t].frame_ids) \cap DOMAIN r.stored :
                              f \in DOMAIN r.hd

\* C27 witness: an update() has called the callback for an object with a
\* history of several frames, and has pruned cached frames of that object
\* after the call.
C27_Witness ==
    /\ lastOp = "update"
    /\ \E e \in purgeLog :
          /\ e.called
          /\ Len(e.obj.frame_ids) >= 2
          /\ Range(e.obj.frame_ids) \cap pruned # {}

\* C28: when update() has returned, every live object has frames_since_seen
\* below frames_before_purge, strictly increasing frame ids, and its last
\* frame id is current_frame - frames_since_seen; and the list every
\* update() returns holds each live object once and nothing else.
C28_LedgerAfterUpdate ==
    /\ lastOp = "update" =>
          \A t \in LiveIds :
              LET obj == tracked_objects[t]
              IN  /\ obj.frames_since_seen >= 0
                  /\ obj.frames_since_seen < frames_before_purge
                  /\ obj.frame_ids # <<>>
                  /\ \A i, j \in DOMAIN obj.frame_ids :
                        i < j => obj.frame_ids[i] < obj.frame_ids[j]
                  /\ LastOf(obj.frame_ids) = current_frame - obj.frames_since_seen
    /\ current_frame < MaxFrame =>
          \A dets \in DetectionLists :
              LET r == UpdateResult(dets, NoFrame, NoTrack)
              IN  /\ ~r.raised
                  /\ Range(r.returned) = {r.objs[t] : t \in DOMAIN r.objs}
                  /\ Len(r.returned) = Cardinality(DOMAIN r.objs)

\* C28 witness: update() has returned with a live object that was matched,
\* missed, matched again and missed again: its frame ids have a gap and its
\* frames_since_seen is 1.
C28_Witness ==
    /\ lastOp = "update"
    /\ \E t \in LiveIds :
          /\ tracked_objects[t].frames_since_seen = 1
          /\ Len(tracked_objects[t].frame_ids) = 2
          /\ tracked_objects[t].frame_ids[2] > tracked_objects[t].frame_ids[1] + 1

\* C29: for every update() the model takes from a state and every detection
\* of it: when the track id is that of an object evicted before (popped by
\* the last update(), or created once and no longer live), the update()
\* makes a new object whose history is that detection alone, first seen in
\* this cycle, while the object evicted by the last update() is not in the
\* ledger, where alone update() changes objects; when the track id is live,
\* the object is continued (its history extended by the detection, its
\* first_seen kept) and its frames_since_seen is 0.
C29_ReuseStartsFreshReappearContinues ==
    current_frame < MaxFrame =>
        \A dets \in DetectionLists :
            \A raiser \in Raisers(dets) :
                LET r == UpdateResult(dets, NoFrame, raiser)
                    frame == current_frame + 1
                IN  \A i \in DOMAIN dets :
                        LET d == dets[i]
                            t == d.track_id
                            evicted == {e \in purgeLog : e.obj.track_id = t}
                        IN  /\ (evicted # {} \/ (createdCount[t] >= 1 /\ t \notin LiveIds)) =>
                                /\ t \in DOMAIN r.objs
                                /\ r.objs[t].boxes = <<d.box>>
                                /\ r.objs[t].class_ids = <<d.cls>>
                                /\ r.objs[t].frame_ids = <<frame>>
                                /\ r.objs[t].first_seen = frame
                                /\ r.objs[t].frames_since_seen = 0
                                /\ \A e \in evicted :
                                      /\ t \notin LiveIds
                                      /\ r.objs[t].first_seen > e.obj.last_seen
                            /\ t \in LiveIds =>
                                LET old == tracked_objects[t]
                                IN  /\ t \in DOMAIN r.objs
                                    /\ r.objs[t].boxes = Append(old.boxes, d.box)
                                    /\ r.objs[t].class_ids = Append(old.class_ids, d.cls)
                                    /\ r.objs[t].frame_ids = Append(old.frame_ids, frame)
                                    /\ r.objs[t].first_seen = old.first_seen
                                    /\ r.objs[t].frames_since_seen = 0

\* C29 witness: one update() has made the second object of a track id whose
\* first object was evicted, and has continued another object that had been
\* missed for one cycle.
C29_Witness ==
    /\ lastOp = "update"
    /\ \E t \in LiveIds :
          /\ createdCount[t] = 2
          /\ Len(tracked_objects[t].boxes) = 1
          /\ tracked_objects[t].first_seen = current_frame
    /\ \E t \in LiveIds :
          /\ Len(tracked_objects[t].frame_ids) = 2
          /\ tracked_objects[t].frames_since_seen = 0
          /\ tracked_objects[t].frame_ids[2] = current_frame
          /\ tracked_objects[t].frame_ids[1] = current_frame - 2

(***************************************************************************)
(* Claims about ties in the direction fallback (checked under              *)
(* SpecAnalyzer).                                                          *)
(***************************************************************************)
\* C33: for a history of at least 2 positions, when |delta_x| = |delta_y|
\* and both are non-zero the sign of delta_y gives the action (positive
\* "arriving", negative "departing"); and in the fallback (neither delta_x <
\* 0 < delta_y nor delta_y < 0 < delta_x) the x axis gives the action only
\* when |delta_x| > |delta_y|: with |delta_x| <= |delta_y| the action is
\* "arriving" for delta_y > 0 and "departing" otherwise.
C33_EqualDisplacementsYDecides ==
    (analyze_runs > 0 /\ Len(tracked_obj.boxes) >= 2) =>
        /\ (Abs(DeltaX) = Abs(DeltaY) /\ DeltaX # 0) =>
              /\ DeltaY > 0 => analysis.action = "arriving"
              /\ DeltaY < 0 => analysis.action = "departing"
        /\ (/\ ~(DeltaX < 0 /\ DeltaY > 0)
            /\ ~(DeltaX > 0 /\ DeltaY < 0)
            /\ Abs(DeltaX) <= Abs(DeltaY)) =>
              analysis.action = (IF DeltaY > 0 THEN "arriving" ELSE "departing")

\* C33 witness: a history that moved right and down by the same amount
\* (the x axis alone would say "departing") was classified "arriving".
C33_Witness ==
    /\ analyze_runs > 0
    /\ Len(tracked_obj.boxes) >= 2
    /\ DeltaX > 0
    /\ DeltaY = DeltaX
    /\ analysis.action = "arriving"

(***************************************************************************)
(* Claims about the order of the retrieved frames (checked under           *)
(* SpecCapture).                                                           *)
(***************************************************************************)
\* C31: the frames that successful retrieve() and read() calls have
\* returned so far are frames the reader has decoded (numbers 1..decoded),
\* in strictly increasing decode order, so that none is returned twice; and
\* no returned frame is still in the queue.
C31_RetrievedInDecodeOrder ==
    /\ \A i \in DOMAIN retrieved : retrieved[i] \in 1..decoded
    /\ \A i, j \in DOMAIN retrieved : i < j => retrieved[i] < retrieved[j]
    /\ \A i \in DOMAIN retrieved : retrieved[i] \notin Range(frame_queue)

\* C31 witness: the consumer took frame 1 between the reader's full() test
\* and its get_nowait(), which then discarded frame 2; the next successful
\* call returned frame 3.
C31_Witness ==
    /\ retrieved = <<1, 3>>
    /\ dropped = 1
    /\ lastCall.ok
    /\ lastCall.frame = 3

(***************************************************************************)
(* Claims about the main loop (checked under SpecMainLoop).                *)
(***************************************************************************)
FailureKinds == {"grab_failed", "retrieve_failed", "exception"}

\* The last iteration failed with 10 failures in a row accumulated.
TenthFailure ==
    /\ lastIter.kind \in FailureKinds
    /\ lastIter.failures = max_errors_before_reconnect

\* C32 as stated: reconnect_stream is called exactly in an iteration that
\* fails with 10 consecutive failures accumulated and fewer than 3
\* reconnects made since the last retrieved frame; the loop is left only by
\* an iteration that fails with 10 consecutive failures accumulated after 3
\* such reconnects; after an iteration with a frame both counters are 0.
C32_ExitsOnlyAfterThreeReconnects ==
    /\ (lastIter.attempts >= 1) <=>
          (TenthFailure /\ lastIter.reconnects < max_reconnect_attempts)
    /\ loop_exit # "none" =>
          (TenthFailure /\ lastIter.reconnects = max_reconnect_attempts)
    /\ lastIter.kind = "frame" =>
          (consecutive_errors = 0 /\ reconnect_count = 0)

\* C32 amended: reconnect_stream is called exactly in an iteration that
\* fails with 10 consecutive failures accumulated (since the last frame or
\* reconnect) and fewer than 3 reconnects made since the last retrieved
\* frame, and a reconnect that returns sets consecutive_errors to 0 and
\* counts one reconnect more; the reconnect logic leaves the loop exactly
\* in an iteration that fails with 10 consecutive failures accumulated
\* after 3 such reconnects; the loop is otherwise left only by Ctrl+C, by
\* 'q' when there is a window, or by an exception (from the processing of
\* a retrieved frame, or from reconnect_stream); after an iteration with a
\* frame both counters are 0; and reconnect_count is the number of
\* reconnects made since the last retrieved frame.
C32_ReconnectLogic ==
    /\ (lastIter.attempts >= 1) <=>
          (TenthFailure /\ lastIter.reconnects < max_reconnect_attempts)
    /\ lastIter.reconnected =>
          /\ lastIter.attempts >= 1
          /\ reconnect_count = lastIter.reconnects + 1
          /\ loop_exit \in {"none", "interrupt"}
          /\ consecutive_errors = 0
    /\ (loop_exit = "max_reconnects") <=>
          (TenthFailure /\ lastIter.reconnects = max_reconnect_attempts)
    /\ loop_exit \in {"none", "max_reconnects", "interrupt", "exception"}
                     \cup (IF HEADLESS THEN {} ELSE {"quit"})
    /\ loop_exit = "exception" =>
          \/ lastIter.kind = "frame"
          \/ lastIter.attempts >= 1 /\ ~lastIter.reconnected
    /\ loop_exit = "quit" => lastIter.kind = "frame"
    /\ lastIter.kind = "frame" =>
          (consecutive_errors = 0 /\ reconnect_count = 0)
    /\ reconnect_count = reconnects_run
    /\ reconnects_run <= max_reconnect_attempts
    /\ lastIter.failures <= max_errors_before_reconnect
    /\ loop_exit = "none" =>
          (consecutive_errors = failures_run
           /\ failures_run < max_errors_before_reconnect)

\* C32 witness: the loop was left by the tenth failure in a row after three
\* reconnects without a frame in between.
C32_Witness ==
    /\ loop_exit = "max_reconnects"
    /\ TenthFailure
    /\ lastIter.reconnects = 3
    /\ reconnect_count = 3
    /\ consecutive_errors = 10

====
